---- MODULE Spec2Model ----
(***************************************************************************)
(* Handle registry and byte-range reader of react-native-big-media-loader. *)
(* Both native implementations are modelled: the Android module            *)
(* (BigMediaLoaderModule, Kotlin) and the iOS module (BigMediaLoader,      *)
(* Objective-C).  The variable `platform` selects which one a behaviour    *)
(* runs.  Lengths and offsets are in bytes; the per-call cap of the        *)
(* Android reader (4 MiB in the source) is scaled to Cap bytes, every      *)
(* comparison the code makes with it being scale-free.                     *)
(***************************************************************************)
EXTENDS Integers, Sequences, FiniteSets, TLC

(* ------------------------------ bounds -------------------------------- *)

\* number of successful open calls explored in one behaviour
MaxOpens == 2

\* number of successful open calls in a behaviour that explores every
\* readBase64 argument
MaxReaderOpens == 1

\* FileHandle wrappers made in one behaviour
MaxWrappers == 1

\* items the user selects in one picker
MaxAssets == 2

\* calls one of the concurrent callers makes
MaxThreadCalls == 1

\* reads one chunked run may make
MaxReads == 6

\* changes of the file in a behaviour with a chunked run
MaxFileChanges == 1

\* per-call cap of readBase64 on Android: 4L * 1024L * 1024L in the source,
\* scaled to 4 bytes
Cap == 4

(* --------------------------- values and files ------------------------- *)

NULL == "null"
Nil == <<"nil">>

Min(a, b) == IF a < b THEN a ELSE b

\* A reference string is a sequence of tokens: a scheme followed by path
\* tokens; " " is a raw space, "%20" its percent-encoded form.
UriA == <<"file:///", "a">>
UriSpace == <<"file:///", "a", " ", "b">>
UriMissing == <<"file:///", "missing">>
Uris == {UriA, UriSpace, UriMissing}

\* paths of the file system (decoded, without the scheme)
PathA == <<"a">>
PathSpace == <<"a", " ", "b">>
PathMissing == <<"missing">>
Paths == {PathA, PathSpace, PathMissing}

NoFile == <<-1>>

\* byte patterns files are cut from
PatternP == <<77, 97, 110, 0, 255, 16, 32, 48, 64, 80>>
PatternQ == <<1, 2, 3, 4, 5, 6, 7, 8, 9, 10>>

Prefix(s, n) == SubSeq(s, 1, n)

\* the contents the file at PathA can have, at open time and after a change
\* (empty, exactly Cap bytes, more than twice Cap bytes)
FileContents == { Prefix(PatternP, n) : n \in {0, 4, 10} }

\* the content of the file at PathSpace
SpaceContent == PatternQ

\* the <<offset, length>> arguments callers pass to readBase64: at the
\* start, inside, at the end and beyond the end of a file, with lengths
\* of zero, below, at and above Cap
ReadArgs == { <<0, 0>>, <<0, 1>>, <<0, 4>>, <<0, 10>>,
              <<4, 1>>, <<8, 4>>, <<8, 10>>, <<10, 1>> }

\* the arguments of a read of the first byte
HeadArgs == { <<0, 1>> }

\* what the content resolver answers for a uri: getType and the display
\* name column ("none": no row or no column)
GetType(uri) == IF uri = UriA THEN "video/mp4" ELSE NULL
DisplayNameQuery(uri) == IF uri = UriA THEN "found" ELSE "none"

(* ------------------------- reference conversions ---------------------- *)

EncodeToken(t) == IF t = " " THEN "%20" ELSE t
DecodeToken(t) == IF t = "%20" THEN " " ELSE t

PercentEncode(s) == [i \in 1..Len(s) |-> EncodeToken(s[i])]
PercentDecode(s) == [i \in 1..Len(s) |-> DecodeToken(s[i])]

IsValidUrlString(s) == \A i \in 1..Len(s) : s[i] # " "

\* Android: Uri.parse keeps the string it was given; toString returns it.
UriParse(s) == s
UriToString(u) == u

\* iOS: [NSURL URLWithString:].  A string with characters that are invalid
\* in a URL gives nil when the build uses the RFC 1738/1808 parser and the
\* percent-encoded URL when it uses the RFC 3986 parser (apps linked
\* against the iOS 17 SDK or later); encodes tells which.
URLWithString(s, encodes) ==
  IF IsValidUrlString(s) THEN s
  ELSE IF encodes THEN PercentEncode(s) ELSE Nil

absoluteString(url) == url

\* url.path / the path the content resolver opens: scheme dropped, decoded
UrlPath(url) == PercentDecode(Tail(url))

lastPathComponent(url) == UrlPath(url)[Len(UrlPath(url))]

(* ------------------------------- base64 ------------------------------- *)

\* A base64 string is the sequence of its sextet indexes (0..63), Pad being
\* the '=' character.
Pad == 64

RECURSIVE Base64Encode(_)
Base64Encode(b) ==
  IF Len(b) = 0 THEN <<>>
  ELSE IF Len(b) = 1 THEN
    << b[1] \div 4, (b[1] % 4) * 16, Pad, Pad >>
  ELSE IF Len(b) = 2 THEN
    << b[1] \div 4, (b[1] % 4) * 16 + b[2] \div 16, (b[2] % 16) * 4, Pad >>
  ELSE
    << b[1] \div 4, (b[1] % 4) * 16 + b[2] \div 16,
       (b[2] % 16) * 4 + b[3] \div 64, b[3] % 64 >>
    \o Base64Encode(SubSeq(b, 4, Len(b)))

RECURSIVE Base64Decode(_)
Base64Decode(c) ==
  IF Len(c) < 4 THEN <<>>
  ELSE
    LET b1 == c[1] * 4 + c[2] \div 16
        b2 == (c[2] % 16) * 16 + c[3] \div 4
        b3 == (c[3] % 4) * 64 + c[4]
    IN  IF c[3] = Pad THEN <<b1>>
        ELSE IF c[4] = Pad THEN <<b1, b2>>
        ELSE <<b1, b2, b3>> \o Base64Decode(SubSeq(c, 5, Len(c)))

(* -------------------------------- state ------------------------------- *)

VARIABLES
  platform,   \* "android" | "ios": which native module runs
  nextId,     \* the id counter
  handles,    \* the registry: handle id -> BigMediaHandle
  fs,         \* the file system: path -> content (or NoFile)
  released,   \* <<id, resource kind>> -> number of release calls made on it
  issued,     \* the handles returned by open, in order
  opened,     \* open id -> what open was given and saw: reference, content
  closeCalls, \* ids of the registered handles close was called on
  last,       \* the last call: operation, arguments, outcome, value
  run         \* the chunked run of the JavaScript layer, if one was started

vars == << platform, nextId, handles, fs, released, issued, opened,
           closeCalls, last, run >>

ghost == << released, issued, opened, closeCalls >>

\* the handle values callers pass: every id open can return and one more
HandleArgs == 1..(MaxOpens + 1)

Known(h) == h \in DOMAIN handles

Call(op, h, off, len, known, outcome, value) ==
  [ op |-> op, handle |-> h, offset |-> off, length |-> len,
    known |-> known, outcome |-> outcome, value |-> value ]

NoValue == [ none |-> TRUE ]

\* JavaScript's null and undefined
JsNull == "null"

Undefined == "undefined"

\* a chunked run as it is when its function is called: the arguments, the
\* locals of readFileInChunks and of the onChunk of uploadFileInChunks, and
\* the record of what the run did: its reads, the chunks given to onChunk,
\* the progress reports, the offsets whose upload succeeded, the calls of
\* uploadFunction for the chunk in hand (tries), all its calls and all its
\* failures, the promises of onChunk not settled yet, the bytes hashed,
\* whether a read saw the file changed, what the caller's onChunk rejected
\* with, what the last failed uploadFunction for the chunk in hand rejected
\* with, the changes of the file so far
NewRun(kind, h, chunkSize, onChunk, onProgress, retryAttempts) ==
  [ kind |-> kind, handle |-> h, chunkSize |-> chunkSize,
    onChunk |-> onChunk, onProgress |-> onProgress,
    retryAttempts |-> retryAttempts,
    pc |-> "idle", size |-> 0, offset |-> 0,
    cur |-> [ bytesRead |-> 0, eof |-> FALSE ],
    reads |-> << >>, chunks |-> << >>, progress |-> << >>,
    uploaded |-> << >>, tries |-> 0, calls |-> 0, failures |-> 0,
    inflight |-> 0, calling |-> FALSE, attempt |-> 0, lastError |-> JsNull,
    error |-> JsNull, hash |-> << >>, result |-> JsNull, changed |-> FALSE,
    thrown |-> JsNull, lastRejection |-> JsNull, fileChanges |-> 0 ]

\* no chunked run was started
NoRun == NewRun("none", 0, 0, FALSE, FALSE, 0)

\* the native module after construction, and the files
InitNative ==
  /\ platform \in {"android", "ios"}
  /\ nextId = 1
  /\ handles = << >>
  /\ fs \in { f \in [Paths -> FileContents \cup {SpaceContent, NoFile}] :
                /\ f[PathMissing] = NoFile
                /\ f[PathA] \in FileContents
                /\ f[PathSpace] = SpaceContent }
  /\ released = << >>
  /\ issued = << >>
  /\ opened = << >>
  /\ closeCalls = {}
  /\ last = Call("init", 0, 0, 0, FALSE, "ok", NoValue)

Init ==
  /\ InitNative
  /\ run = NoRun

(* ------------------------------ registry ------------------------------ *)

\* HashMap.put / NSMutableDictionary setObject:forKey:
Put(hs, id, rec) ==
  [ k \in DOMAIN hs \cup {id} |-> IF k = id THEN rec ELSE hs[k] ]

\* HashMap.remove / removeObjectForKey:
Remove(hs, h) == [ k \in DOMAIN hs \ {h} |-> hs[k] ]

\* a counter that open forgets to advance
BumpIdStuck(n) == n

\* nextId++ / _nextId++ : the value the counter has after an open
BumpId(n) == n + 1

\* a release call on resource r
Release(rel, r) == [ rel EXCEPT ![r] = @ + 1 ]

\* the resources a handle owns
ResourcesOf(plat, id) ==
  IF plat = "android" THEN { <<id, "channel">>, <<id, "pfd">> }
  ELSE { <<id, "fh">> }

\* BigMediaHandle; the field channel holds the open file (on iOS: fh) with
\* the position its next read starts at
BigMediaHandle(id, uri, path, size, mime, name) ==
  [ id |-> id, uri |-> uri, channel |-> [ path |-> path, pos |-> 0 ],
    size |-> size, mime |-> mime, name |-> name ]

Register(id, rec, s, path) ==
  /\ nextId' = BumpId(nextId)
  /\ handles' = Put(handles, id, rec)
  /\ released' = released @@ [ r \in ResourcesOf(platform, id) |-> 0 ]
  /\ issued' = Append(issued, id)
  /\ opened' = Put(opened, id, [ uri |-> s, content |-> fs[path], path |-> path ])
  /\ last' = Call("open", id, 0, 0, FALSE, "ok", [ handle |-> id ])

FailOpen(s) ==
  /\ last' = Call("open", 0, 0, 0, FALSE, "OpenError", [ uri |-> s ])
  /\ UNCHANGED << nextId, handles, released, issued, opened >>

\* a query of the content resolver that throws
Throws == "throws"

\* BigMediaLoaderModule.open: getType and queryDisplayName run first, then
\* openFileDescriptor, which throws or returns null for an unreadable uri.
\* Nothing catches what the query of the display name throws.
AndroidOpen(s, mime, nameQ) ==
  LET uri == UriParse(s)
      path == UrlPath(uri)
      name == IF nameQ = "found" THEN lastPathComponent(uri) ELSE NULL
  IN  IF nameQ = Throws \/ fs[path] = NoFile
      THEN FailOpen(s)
      ELSE Register(nextId,
                    BigMediaHandle(nextId, uri, path, Len(fs[path]), mime, name),
                    s, path)

\* BigMediaLoader open: URLWithString, fileHandleForReadingFromURL (throws
\* when it fails), then the file's size attribute and the last path component.
IosOpen(s, encodes) ==
  LET url == URLWithString(s, encodes)
  IN  IF url = Nil THEN FailOpen(s)
      ELSE IF fs[UrlPath(url)] = NoFile THEN FailOpen(s)
      ELSE Register(nextId,
                    BigMediaHandle(nextId, url, UrlPath(url),
                                   Len(fs[UrlPath(url)]), NULL,
                                   lastPathComponent(url)),
                    s, UrlPath(url))

\* open(s) on either platform
OpenCall(s) ==
  /\ \/ /\ platform = "android"
        /\ AndroidOpen(s, GetType(s), DisplayNameQuery(s))
     \/ /\ platform = "ios"
        /\ \E encodes \in BOOLEAN : IosOpen(s, encodes)
  /\ UNCHANGED << platform, fs, closeCalls >>

open ==
  /\ Len(issued) < MaxOpens
  /\ \E s \in Uris : OpenCall(s)
  /\ UNCHANGED run

\* a close that rejects a handle it does not know
CloseOutcomeStrict(known, releaseFailed) ==
  IF ~known THEN "InvalidHandle"
  ELSE IF releaseFailed THEN "IOException" ELSE "ok"

\* what close reports to its caller
CloseOutcome(known, releaseFailed) ==
  IF known /\ releaseFailed THEN "IOException" ELSE "ok"

\* BigMediaLoaderModule.close: handles.remove(handle)?.let { channel.close();
\* pfd.close() }.  failure names the close() call that throws an
\* IOException, if one does; a throw ends the block and reaches the caller.
AndroidClose(h, failure) ==
  IF Known(h)
  THEN /\ handles' = Remove(handles, h)
       /\ opened' = Remove(opened, h)
       /\ released' = IF failure = "channel" THEN Release(released, <<h, "channel">>)
                      ELSE Release(Release(released, <<h, "channel">>), <<h, "pfd">>)
       /\ closeCalls' = closeCalls \cup {h}
       /\ last' = Call("close", h, 0, 0, TRUE,
                       CloseOutcome(TRUE, failure # "none"), NoValue)
  ELSE /\ last' = Call("close", h, 0, 0, FALSE, CloseOutcome(FALSE, FALSE), NoValue)
       /\ UNCHANGED << handles, released, opened, closeCalls >>

\* BigMediaLoader close: if (h) { [h.fh closeFile]; removeObjectForKey }
IosClose(h) ==
  IF Known(h)
  THEN /\ released' = Release(released, <<h, "fh">>)
       /\ handles' = Remove(handles, h)
       /\ opened' = Remove(opened, h)
       /\ closeCalls' = closeCalls \cup {h}
       /\ last' = Call("close", h, 0, 0, TRUE, CloseOutcome(TRUE, FALSE), NoValue)
  ELSE /\ last' = Call("close", h, 0, 0, FALSE, CloseOutcome(FALSE, FALSE), NoValue)
       /\ UNCHANGED << handles, released, opened, closeCalls >>

\* close(h) on either platform
CloseCall(h) ==
  /\ \/ /\ platform = "android"
        /\ \E failure \in {"none", "channel", "pfd"} : AndroidClose(h, failure)
     \/ /\ platform = "ios"
        /\ IosClose(h)
  /\ UNCHANGED << platform, nextId, fs, issued >>

close == \E h \in HandleArgs : CloseCall(h) /\ UNCHANGED run

\* what a query on a handle that is not in the registry gives: Android
\* throws RuntimeException("Invalid handle"), iOS returns nil
UnknownHandleOutcome(plat) == IF plat = "android" THEN "InvalidHandle" ELSE "nil"

\* h.uri.toString() / h.url.absoluteString
UriString(h) == IF platform = "android" THEN UriToString(h.uri)
                ELSE absoluteString(h.uri)

\* a stat that asks the file for its length again
StatValueLive(h) ==
  [ size |-> Len(fs[h.channel.path]), mime |-> h.mime, name |-> h.name,
    uri |-> UriString(h) ]

\* the map stat returns
StatValue(h) ==
  [ size |-> h.size, mime |-> h.mime, name |-> h.name, uri |-> UriString(h) ]

StatCall(h) ==
  /\ last' = IF Known(h)
             THEN Call("stat", h, 0, 0, TRUE, "ok", StatValue(handles[h]))
             ELSE Call("stat", h, 0, 0, FALSE, UnknownHandleOutcome(platform), NoValue)
  /\ UNCHANGED << platform, nextId, handles, fs, ghost >>

stat == \E h \in HandleArgs : StatCall(h) /\ UNCHANGED run

\* what playableUri returns
PlayableValue(h) == UriString(h)

PlayableCall(h) ==
  /\ last' = IF Known(h)
             THEN Call("playableUri", h, 0, 0, TRUE, "ok",
                       [ uri |-> PlayableValue(handles[h]) ])
             ELSE Call("playableUri", h, 0, 0, FALSE,
                       UnknownHandleOutcome(platform), NoValue)
  /\ UNCHANGED << platform, nextId, handles, fs, ghost >>

playableUri == \E h \in HandleArgs : PlayableCall(h) /\ UNCHANGED run

(* --------------------------- byte-range reader ------------------------ *)

\* length.toLong().coerceAtMost(4L * 1024L * 1024L)
CoerceAtMost(length) == Min(length, Cap)

\* h.channel.position(off) / [h.fh seekToFileOffset:off]: absolute
Position(pos, off) == off

\* FileChannel.read(buf) with a buffer of len bytes at position pos:
\* 0 for an empty buffer, -1 at or beyond the end of the file
ChannelRead(content, pos, len) ==
  IF len = 0 THEN 0
  ELSE IF pos >= Len(content) THEN -1
  ELSE Min(len, Len(content) - pos)

\* the bytes of content at [pos, pos + n)
BytesAt(content, pos, n) == SubSeq(content, pos + 1, pos + n)

\* [h.fh readDataOfLength:len] at position pos: what is there, up to len
ReadDataOfLength(content, pos, len) ==
  IF pos >= Len(content) THEN << >>
  ELSE BytesAt(content, pos, Min(len, Len(content) - pos))

\* an end-of-file test that is off by one
EofFlagOffsetOnly(off, n, size) == off >= size

EofFlagStrict(off, n, size) == off + n > size

\* (off + read) >= h.size
EofFlag(off, n, size) == off + n >= size

ReadValue(off, n, eof, bytes) ==
  [ offset |-> off, bytesRead |-> n, eof |-> eof, base64 |-> Base64Encode(bytes) ]

\* BigMediaLoaderModule.readBase64 after the clamp: len is the clamped length
AndroidReadLen(h, off, length, len) ==
  LET rec == handles[h]
      content == fs[rec.channel.path]
      pos == Position(rec.channel.pos, off)
      read == ChannelRead(content, pos, len)
  IN  /\ handles' = [ handles EXCEPT ![h].channel.pos =
                        IF read > 0 THEN pos + read ELSE pos ]
      /\ last' = Call("readBase64", h, off, length, TRUE, "ok",
                      IF read <= 0
                      THEN ReadValue(off, 0, TRUE, << >>)
                      ELSE ReadValue(off, read, EofFlag(off, read, rec.size),
                                     BytesAt(content, pos, read)))

\* BigMediaLoaderModule.readBase64
AndroidRead(h, off, length) == AndroidReadLen(h, off, length, CoerceAtMost(length))

\* BigMediaLoader readBase64: no clamp of the length, no zero-read branch
IosRead(h, off, length) ==
  LET rec == handles[h]
      content == fs[rec.channel.path]
      pos == Position(rec.channel.pos, off)
      d == ReadDataOfLength(content, pos, length)
  IN  /\ handles' = [ handles EXCEPT ![h].channel.pos = pos + Len(d) ]
      /\ last' = Call("readBase64", h, off, length, TRUE, "ok",
                      ReadValue(off, Len(d), EofFlag(off, Len(d), rec.size), d))

\* readBase64 on either platform, len being the length Android reads
ReadCallLen(h, off, length, len) ==
  /\ IF Known(h)
     THEN IF platform = "android"
          THEN AndroidReadLen(h, off, length, len)
          ELSE IosRead(h, off, length)
     ELSE /\ last' = Call("readBase64", h, off, length, FALSE,
                          UnknownHandleOutcome(platform), NoValue)
          /\ UNCHANGED handles
  /\ UNCHANGED << platform, nextId, fs, ghost >>

ReadCall(h, off, length) == ReadCallLen(h, off, length, CoerceAtMost(length))

\* readBase64 with any of the arguments
readBase64 ==
  \E h \in HandleArgs, a \in ReadArgs : ReadCall(h, a[1], a[2]) /\ UNCHANGED run

\* readBase64 of the first byte
readHead ==
  \E h \in HandleArgs, a \in HeadArgs : ReadCall(h, a[1], a[2]) /\ UNCHANGED run

(* ------------------------------ environment --------------------------- *)

\* the file at PathA becomes c
FileChangeTo(c) ==
  /\ c # fs[PathA]
  /\ fs' = [ fs EXCEPT ![PathA] = c ]
  /\ last' = Call("fileChange", 0, 0, 0, FALSE, "ok", [ path |-> PathA ])
  /\ UNCHANGED << platform, nextId, handles, ghost >>

\* another process rewrites, truncates or extends a file
fileChange == \E c \in FileContents : FileChangeTo(c) /\ UNCHANGED run

\* The registry with several handles: every operation, reads of the
\* first byte only.
Next == open \/ close \/ stat \/ playableUri \/ readHead \/ fileChange

Spec == Init /\ [][Next]_vars

\* The reader: every operation with every read argument, on fewer handles.
openReader == Len(issued) < MaxReaderOpens /\ open

NextReader ==
  openReader \/ close \/ stat \/ playableUri \/ readBase64 \/ fileChange

SpecReader == Init /\ [][NextReader]_vars

(* ----------------------- chunked reading (JavaScript) ------------------ *)

\* chunkSize = 4 * 1024 * 1024, at the scale of Cap
DefaultChunkSize == 4

\* retryAttempts = 3
DefaultRetryAttempts == 3

\* the chunk sizes callers pass: one that divides the file sizes, one that
\* does not, the default, and one above Cap and above every file size
ChunkSizes == {2, 3, DefaultChunkSize, 11}

UploadChunkSizes == {3, 11}

RetryAttempts == {-1, 0, 1, 2, DefaultRetryAttempts}

\* what an onChunk or an uploadFunction rejects with
Errors == {"E1", "E2", Undefined}

\* the values that || takes as true
Truthy(v) == v \notin {Undefined, JsNull}

\* new Error('Upload failed after all retry attempts')
GenericUploadError == "Upload failed after all retry attempts"

\* the handles a run is started on: the last one open returned and one
\* open has not returned
RunHandles == {nextId - 1, nextId}

\* what the run rejects with when a call on the handle fails: the error
\* Android throws, or the TypeError of reading a property of iOS's nil
CallFailure(outcome) == IF outcome = "nil" THEN "TypeError" ELSE outcome

\* Buffer.from(base64, 'base64')
BufferFrom(base64) == Base64Decode(base64)

\* a hash that keeps the last chunk only
HashUpdateLast(h, chunk) == chunk

\* hash.update(chunk): the state of the hash is the stream it was fed
HashUpdate(h, chunk) == h \o chunk

\* hash.digest('hex'): SHA-256 of the stream, taken as injective
Sha256Hex(stream) == << "sha256", stream >>

\* a loop that goes round once more at the end of the file
LoopTestInclusive(offset, size) == IF offset <= size THEN "loop" ELSE "resolved"

\* while (offset < stats.size)
LoopTest(offset, size) == IF offset < size THEN "loop" ELSE "resolved"

\* return hash.digest('hex') once readFileInChunks has resolved
Return(r) ==
  IF r.kind = "hash" /\ r.pc = "resolved"
  THEN [ r EXCEPT !.result = Sha256Hex(r.hash) ]
  ELSE r

\* an iteration that advances by the chunk size it asked for
ResumeByChunkSize(r) ==
  LET done == r.offset + r.chunkSize
  IN  Return([ r EXCEPT
        !.progress = IF r.onProgress THEN Append(@, << done, r.size >>) ELSE @,
        !.offset = done,
        !.pc = IF r.cur.eof THEN "resolved" ELSE LoopTest(done, r.size) ])

\* the rest of an iteration: onProgress, offset += bytesRead, if (eof) break
Resume(r) ==
  LET done == r.offset + r.cur.bytesRead
  IN  Return([ r EXCEPT
        !.progress = IF r.onProgress THEN Append(@, << done, r.size >>) ELSE @,
        !.offset = done,
        !.pc = IF r.cur.eof THEN "resolved" ELSE LoopTest(done, r.size) ])

\* a rejection of onChunk that the run swallows
RejectedGoesOn(r, e) == Resume([ r EXCEPT !.inflight = 0 ])

\* a rejection of the promise of onChunk ends the run with that reason
Rejected(r, e) ==
  [ r EXCEPT !.pc = "rejected", !.error = e, !.calling = FALSE,
             !.inflight = IF @ > 0 THEN @ - 1 ELSE 0 ]

\* an iteration that goes on while its onChunk is pending
NoAwait(r) == Resume(r)

\* await onChunk(buffer, offset)
AwaitOnChunk(r) == [ r EXCEPT !.pc = "await" ]

\* a catch that keeps the error of the first failure
CatchFirstError(lastError, error) ==
  IF lastError = JsNull THEN error ELSE lastError

\* catch (error) { lastError = error as Error; ... }
CatchError(lastError, error) == error

\* a retry loop that makes one attempt more
UploadAttemptOneMore(r) ==
  IF r.attempt <= r.retryAttempts
  THEN AwaitOnChunk([ r EXCEPT !.tries = @ + 1, !.calls = @ + 1,
                               !.calling = TRUE ])
  ELSE Rejected(r, IF Truthy(r.lastError) THEN r.lastError
                   ELSE GenericUploadError)

\* a retry loop that tests its bound after the attempt
UploadAttemptDoWhile(r) ==
  IF r.attempt = 0 \/ r.attempt < r.retryAttempts
  THEN AwaitOnChunk([ r EXCEPT !.tries = @ + 1, !.calls = @ + 1,
                               !.calling = TRUE ])
  ELSE Rejected(r, IF Truthy(r.lastError) THEN r.lastError
                   ELSE GenericUploadError)

\* a retry loop that returns after its last attempt failed
UploadAttemptSwallows(r) ==
  IF r.attempt < r.retryAttempts
  THEN AwaitOnChunk([ r EXCEPT !.tries = @ + 1, !.calls = @ + 1,
                               !.calling = TRUE ])
  ELSE Resume([ r EXCEPT !.calling = FALSE, !.inflight = 0 ])

\* for (...; attempt < retryAttempts; ...) await uploadFunction(chunk, offset)
\* and, after the loop, throw lastError || new Error(...)
UploadAttempt(r) ==
  IF r.attempt < r.retryAttempts
  THEN AwaitOnChunk([ r EXCEPT !.tries = @ + 1, !.calls = @ + 1,
                               !.calling = TRUE ])
  ELSE Rejected(r, IF Truthy(r.lastError) THEN r.lastError
                   ELSE GenericUploadError)

\* onChunk(buffer, offset) is called: the caller's callback, the retry loop
\* of uploadFileInChunks, or hash.update of calculateFileHash
CallOnChunk(r, buffer) ==
  LET r2 == [ r EXCEPT !.chunks = Append(@, [ offset |-> r.offset,
                                               bytes |-> buffer ]) ]
  IN  CASE r.kind = "read" ->
             AwaitOnChunk([ r2 EXCEPT !.inflight = @ + 1 ])
        [] r.kind = "hash" ->
             AwaitOnChunk([ r2 EXCEPT !.hash = HashUpdate(@, buffer) ])
        [] r.kind = "upload" ->
             UploadAttempt([ r2 EXCEPT
               !.inflight = @ + 1, !.attempt = 0, !.lastError = JsNull,
               !.lastRejection = JsNull, !.tries = 0 ])

\* the iteration after readBase64 returned res
AfterRead(r, res, changed) ==
  LET r1 == [ r EXCEPT
                !.reads = Append(@, [ offset |-> r.offset,
                                      bytesRead |-> res.bytesRead,
                                      eof |-> res.eof ]),
                !.cur = [ bytesRead |-> res.bytesRead, eof |-> res.eof ],
                !.changed = @ \/ changed ]
  IN  IF r.onChunk THEN CallOnChunk(r1, BufferFrom(res.base64))
      ELSE Resume(r1)

\* the call of a chunked function: BigMediaLoader.stat(handle), offset = 0
\* and the first test of the loop
StartRun(r) ==
  /\ run.pc = "idle"
  /\ StatCall(r.handle)
  /\ run' = IF last'.outcome = "ok"
            THEN Return([ r EXCEPT !.size = last'.value.size,
                                   !.pc = LoopTest(0, last'.value.size),
                                   !.fileChanges = run.fileChanges ])
            ELSE [ r EXCEPT !.pc = "rejected",
                            !.error = CallFailure(last'.outcome),
                            !.fileChanges = run.fileChanges ]

readFileInChunks ==
  \E h \in RunHandles, c \in ChunkSizes, oc \in BOOLEAN, op \in BOOLEAN :
    StartRun(NewRun("read", h, c, oc, op, 0))

uploadFileInChunks ==
  \E h \in RunHandles, c \in UploadChunkSizes, r \in RetryAttempts,
     op \in BOOLEAN :
    StartRun(NewRun("upload", h, c, TRUE, op, r))

calculateFileHash ==
  \E h \in RunHandles :
    StartRun(NewRun("hash", h, DefaultChunkSize, TRUE, FALSE, 0))

\* one pass of the loop of readFileInChunks up to its await: readBase64 at
\* the offset, Buffer.from, the call of onChunk
chunkRead ==
  /\ run.pc = "loop"
  /\ Len(run.reads) < MaxReads
  /\ ReadCall(run.handle, run.offset, run.chunkSize)
  /\ run' = IF last'.outcome = "ok"
            THEN AfterRead(run, last'.value,
                           fs[handles[run.handle].channel.path]
                             # opened[run.handle].content)
            ELSE [ run EXCEPT !.pc = "rejected",
                              !.error = CallFailure(last'.outcome) ]

\* the promise of the caller's onChunk (or the value of hash.update) settles
onChunkSettles ==
  /\ run.pc = "await"
  /\ run.kind \in {"read", "hash"}
  /\ \E outcome \in {"ok"} \cup (IF run.kind = "read" THEN Errors ELSE {}) :
       run' = IF outcome = "ok"
              THEN Resume([ run EXCEPT !.inflight = IF @ > 0 THEN @ - 1 ELSE 0 ])
              ELSE [ Rejected(run, outcome) EXCEPT !.thrown = outcome ]
  /\ UNCHANGED << platform, nextId, handles, fs, ghost, last >>

\* the promise of uploadFunction settles: return on success, else keep the
\* error, wait retryDelay if an attempt is left, and go round the loop
uploadFunctionSettles ==
  /\ run.pc = "await"
  /\ run.calling
  /\ \E outcome \in {"ok"} \cup Errors :
       run' = IF outcome = "ok"
              THEN Resume([ run EXCEPT !.calling = FALSE,
                                       !.inflight = @ - 1,
                                       !.uploaded = Append(@, run.offset) ])
              ELSE UploadAttempt([ run EXCEPT !.calling = FALSE,
                                              !.lastError = CatchError(@, outcome),
                                              !.lastRejection = outcome,
                                              !.failures = @ + 1,
                                              !.attempt = @ + 1 ])
  /\ UNCHANGED << platform, nextId, handles, fs, ghost, last >>

\* the open of the handle of the chunked run
openFirst == issued = << >> /\ open

\* a change of the file before or during a chunked run
fileChangeInRun ==
  /\ run.fileChanges < MaxFileChanges
  /\ \E c \in FileContents : FileChangeTo(c)
  /\ run' = [ run EXCEPT !.fileChanges = @ + 1 ]

\* The chunked functions on one handle, while the file may change.
NextChunks ==
  \/ openFirst
  \/ fileChangeInRun
  \/ readFileInChunks
  \/ uploadFileInChunks
  \/ calculateFileHash
  \/ chunkRead
  \/ onChunkSettles
  \/ uploadFunctionSettles

SpecChunks == Init /\ [][NextChunks]_vars

(* ------------------------- file type detection ------------------------ *)

\* readFileHeader(handle, 16)
HeaderSize == 16

\* the file signatures as bytes
SigJpeg == << 255, 216, 255 >>
SigPng == << 137, 80, 78, 71 >>
SigGif == << 71, 73, 70, 56 >>
SigRiff == << 82, 73, 70, 70 >>
SigAvi == << 65, 86, 73, 32 >>
SigMpeg == << 0, 0, 1, 179 >>
SigFtyp == << 102, 116, 121, 112 >>
SigWebm == << 26, 69, 223, 163 >>
SigPdf == << 37, 80, 68, 70 >>
SigZip == << 80, 75, 3, 4 >>

\* the header of utils.test.ts 'should detect JPEG file type'
JpegTestHeader == << 255, 216, 255, 224, 0, 16, 74, 70, 73, 70, 0, 1 >>

\* the header of utils.test.ts 'should detect MP4 file type'
Mp4TestHeader == << 0, 0, 0, 32, 102, 116, 121, 112, 109, 112, 52, 50 >>

\* AVI: RIFF, the chunk size, then 'AVI '
AviHeader == SigRiff \o << 36, 0, 0, 0 >> \o SigAvi \o << 76, 73, 83, 84 >>

\* RIFF with the digits of 'AVI ' shifted by half a byte: x4 15 64 92 0x
RiffShifted == SigRiff \o << 4, 21, 100, 146, 0 >>

\* RIFF with 'AVI ' at bytes 14..17, across the end of the header that is read
RiffAviLate == SigRiff \o << 1, 2, 3, 4, 5, 6, 7, 8, 9, 10 >> \o SigAvi

\* the contents of the files whose type is detected: every signature alone,
\* followed by other bytes, preceded by a byte and cut short by a byte; the
\* headers of the tests; RIFF files; an empty file
Signatures == { SigJpeg, SigPng, SigGif, SigRiff, SigMpeg, SigFtyp, SigWebm,
                SigPdf, SigZip }

HeaderFiles ==
  Signatures
  \cup { sig \o << 1, 2 >> : sig \in Signatures }
  \cup { << 7 >> \o sig : sig \in Signatures }
  \cup { SubSeq(sig, 1, Len(sig) - 1) : sig \in Signatures }
  \cup { JpegTestHeader, Mp4TestHeader, AviHeader, RiffShifted, RiffAviLate,
         SigRiff \o SigAvi, SigAvi \o SigRiff, << >> }

\* the two lowercase hex digits of a byte, as numbers 0..15
HexDigits(b) == << b \div 16, b % 16 >>

\* header.toString('hex').toLowerCase()
RECURSIVE ToHex(_)
ToHex(bytes) ==
  IF bytes = << >> THEN << >>
  ELSE HexDigits(bytes[1]) \o ToHex(Tail(bytes))

\* a test that finds the signature anywhere in the string
FoundAnywhere(hex, sig) ==
  \E i \in 0..(Len(hex) - Len(sig)) : SubSeq(hex, i + 1, i + Len(sig)) = sig

\* hex.startsWith(sig)
StartsWith(hex, sig) ==
  /\ Len(hex) >= Len(sig)
  /\ SubSeq(hex, 1, Len(sig)) = sig

\* hex.includes(sig)
Includes(hex, sig) ==
  \E i \in 0..(Len(hex) - Len(sig)) : SubSeq(hex, i + 1, i + Len(sig)) = sig

\* the chain of tests of detectFileType on the hex string: 'ffd8ff',
\* '89504e47', '47494638', '52494646' and '41564920', '000001b3', '66747970',
\* '1a45dfa3', '25504446', '504b0304'
DetectHex(hex) ==
  IF StartsWith(hex, << 15, 15, 13, 8, 15, 15 >>) THEN "image/jpeg"
  ELSE IF StartsWith(hex, << 8, 9, 5, 0, 4, 14, 4, 7 >>) THEN "image/png"
  ELSE IF StartsWith(hex, << 4, 7, 4, 9, 4, 6, 3, 8 >>) THEN "image/gif"
  ELSE IF /\ StartsWith(hex, << 5, 2, 4, 9, 4, 6, 4, 6 >>)
          /\ Includes(hex, << 4, 1, 5, 6, 4, 9, 2, 0 >>) THEN "video/avi"
  ELSE IF StartsWith(hex, << 0, 0, 0, 0, 0, 1, 11, 3 >>) THEN "video/mpeg"
  ELSE IF StartsWith(hex, << 6, 6, 7, 4, 7, 9, 7, 0 >>) THEN "video/mp4"
  ELSE IF StartsWith(hex, << 1, 10, 4, 5, 13, 15, 10, 3 >>) THEN "video/webm"
  ELSE IF StartsWith(hex, << 2, 5, 5, 0, 4, 4, 4, 6 >>) THEN "application/pdf"
  ELSE IF StartsWith(hex, << 5, 0, 4, 11, 0, 3, 0, 4 >>) THEN "application/zip"
  ELSE "application/octet-stream"

\* readFileHeader(handle, 16): readBase64(handle, 0, 16); 16 bytes are below
\* the cap of 4 MiB, so the clamp leaves the length as it is
ReadFileHeader(h) == ReadCallLen(h, 0, HeaderSize, HeaderSize)

\* detectFileType(handle)
detectFileType ==
  /\ run.pc = "idle"
  /\ \E h \in RunHandles :
       /\ ReadFileHeader(h)
       /\ run' = IF last'.outcome = "ok"
                 THEN LET header == BufferFrom(last'.value.base64)
                      IN  [ kind |-> "detect", handle |-> h, pc |-> "returned",
                            header |-> header,
                            result |-> DetectHex(ToHex(header)),
                            error |-> JsNull ]
                 ELSE [ kind |-> "detect", handle |-> h, pc |-> "threw",
                        header |-> << >>, result |-> JsNull,
                        error |-> CallFailure(last'.outcome) ]

\* the files whose type is detected
InitDetect ==
  /\ platform \in {"android", "ios"}
  /\ nextId = 1
  /\ handles = << >>
  /\ fs \in { f \in [Paths -> HeaderFiles \cup {SpaceContent, NoFile}] :
                /\ f[PathMissing] = NoFile
                /\ f[PathA] \in HeaderFiles
                /\ f[PathSpace] = SpaceContent }
  /\ released = << >>
  /\ issued = << >>
  /\ opened = << >>
  /\ closeCalls = {}
  /\ last = Call("init", 0, 0, 0, FALSE, "ok", NoValue)
  /\ run = NoRun

\* Detection of the type of a file that was opened.
NextDetect == openFirst \/ detectFileType

SpecDetect == InitDetect /\ [][NextDetect]_vars

(* ------------------------- FileHandle (JavaScript) -------------------- *)

\* new Error('File handle is closed')
ClosedError == "File handle is closed"

\* the methods of FileHandle that go through getHandle()
WrapperOps == {"getHandle", "stat", "readChunk", "getPlayableUri"}

\* the last call on a wrapper: the method, the wrapper, how it ended
\* ("ok" or what it threw) and whether it called the native module
JsCall(op, w, outcome, native) ==
  [ op |-> op, w |-> w, outcome |-> outcome, native |-> native ]

\* a FileHandle: this.handle, this.closed; closeCalled tells that close()
\* was called on it, nativeCloses how often it called the native close
Wrapper(h) ==
  [ handle |-> h, closed |-> FALSE, closeCalled |-> FALSE, nativeCloses |-> 0 ]

\* no withFileHandle was called
NoScope ==
  [ pc |-> "none", w |-> 0, operation |-> "none", operationValue |-> JsNull,
    outcome |-> "none", value |-> JsNull ]

\* a pick result of the native module
PickResult(assets, canceled) == [ assets |-> assets, canceled |-> canceled ]

\* no picker was presented: the promise of the native pick, what the user
\* answered, what the promise settled with, and whether a later pick has
\* replaced the promise the module keeps
NoPicker ==
  [ pc |-> "none", kind |-> "none", response |-> "none",
    result |-> PickResult(<< >>, FALSE), error |-> JsNull,
    overwritten |-> FALSE ]

\* no pick...WithHandles was called: its assets, its handles (wrappers), the
\* uri each handle was opened from, and what it settled with
NoPick ==
  [ pc |-> "none", assets |-> << >>, handles |-> << >>, from |-> << >>,
    canceled |-> FALSE, error |-> JsNull ]

\* no processPickedMedia was called
NoProcess ==
  [ pc |-> "none", processorCalls |-> 0, processor |-> "none",
    processorValue |-> JsNull, i |-> 0, outcome |-> "none", value |-> JsNull ]

\* the JavaScript layer with no wrapper made yet
NoWrappers ==
  [ kind |-> "wrap", pc |-> "idle", wrappers |-> << >>,
    js |-> JsCall("none", 0, "ok", FALSE), scope |-> NoScope,
    picker |-> NoPicker, pick |-> NoPick, process |-> NoProcess ]

\* what a call of the native module ends with, seen from JavaScript: the
\* value, or what was thrown (nil is a value on iOS)
NativeOutcome(call) == IF call.outcome = "nil" THEN "ok" ELSE call.outcome

\* the variables of the native module and of the files
nativeVars ==
  << platform, nextId, handles, fs, released, issued, opened, closeCalls, last >>

\* constructor(uri) { this.handle = BigMediaLoader.open(uri) }
newFileHandle ==
  /\ Len(run.wrappers) < MaxWrappers
  /\ \E s \in Uris : OpenCall(s)
  /\ run' = IF last'.outcome = "ok"
            THEN [ run EXCEPT
                     !.wrappers = Append(@, Wrapper(last'.value.handle)),
                     !.js = JsCall("new", Len(run.wrappers) + 1, "ok", TRUE) ]
            ELSE [ run EXCEPT !.js = JsCall("new", 0, last'.outcome, TRUE) ]

\* getHandle(): throws when this.closed
GetHandle(wr) == IF wr.closed THEN ClosedError ELSE "ok"

\* getHandle(), stat(), readChunk(0, 1) and getPlayableUri() on wrapper w
WrapperCall(w, op) ==
  LET wr == run.wrappers[w]
  IN  IF GetHandle(wr) # "ok" \/ op = "getHandle"
      THEN /\ run' = [ run EXCEPT !.js = JsCall(op, w, GetHandle(wr), FALSE) ]
           /\ UNCHANGED nativeVars
      ELSE /\ CASE op = "stat" -> StatCall(wr.handle)
                [] op = "readChunk" -> ReadCall(wr.handle, 0, 1)
                [] op = "getPlayableUri" -> PlayableCall(wr.handle)
           /\ run' = [ run EXCEPT !.js = JsCall(op, w, NativeOutcome(last'), TRUE) ]

wrapperCall ==
  \E w \in 1..Len(run.wrappers), op \in WrapperOps : WrapperCall(w, op)

\* the wrapper after close(): this.closed = true is reached only when the
\* native close returned
AfterClose(r, w, native, outcome) ==
  [ r EXCEPT !.wrappers[w].closeCalled = TRUE,
             !.wrappers[w].nativeCloses = IF native THEN @ + 1 ELSE @,
             !.wrappers[w].closed = IF native THEN outcome = "ok" ELSE @,
             !.js = JsCall("close", w, outcome, native) ]

\* close(): if (!this.closed) { BigMediaLoader.close(this.handle) ... }
CloseNative(w) ==
  IF run.wrappers[w].closed
  THEN UNCHANGED nativeVars
  ELSE CloseCall(run.wrappers[w].handle)

\* how the close() of wrapper w ends in this step
WrapperCloseOutcome(w) == IF run.wrappers[w].closed THEN "ok" ELSE last'.outcome

WrapperClose(w) ==
  /\ CloseNative(w)
  /\ run' = AfterClose(run, w, ~run.wrappers[w].closed, WrapperCloseOutcome(w))

wrapperClose == \E w \in 1..Len(run.wrappers) : WrapperClose(w)

\* withFileHandle(uri, operation) up to its await: new FileHandle(uri), the
\* call of operation(handle)
withFileHandle ==
  /\ run.scope.pc = "none"
  /\ Len(run.wrappers) < MaxWrappers
  /\ \E s \in Uris : OpenCall(s)
  /\ run' = IF last'.outcome = "ok"
            THEN [ run EXCEPT
                     !.wrappers = Append(@, Wrapper(last'.value.handle)),
                     !.js = JsCall("new", Len(run.wrappers) + 1, "ok", TRUE),
                     !.scope = [ NoScope EXCEPT !.pc = "operation",
                                                !.w = Len(run.wrappers) + 1 ] ]
            ELSE [ run EXCEPT
                     !.js = JsCall("new", 0, last'.outcome, TRUE),
                     !.scope = [ NoScope EXCEPT !.pc = "settled",
                                                !.outcome = last'.outcome ] ]

\* what withFileHandle settles with after finally { handle.close() }: a
\* throw in the finally block replaces the outcome of the operation
Finally(operation, value, closeOutcome) ==
  IF closeOutcome = "ok"
  THEN [ outcome |-> operation, value |-> value ]
  ELSE [ outcome |-> "rejected", value |-> closeOutcome ]

\* the promise of operation(handle) settles, then finally { handle.close() }
withFileHandleSettles ==
  /\ run.scope.pc = "operation"
  /\ \E o \in { << "resolved", "V" >> } \cup { << "rejected", e >> : e \in Errors } :
       LET w == run.scope.w
           end == Finally(o[1], o[2], WrapperCloseOutcome(w))
       IN  /\ CloseNative(w)
           /\ run' = [ AfterClose(run, w, ~run.wrappers[w].closed, WrapperCloseOutcome(w))
                         EXCEPT !.scope = [ pc |-> "settled", w |-> w,
                                            operation |-> o[1],
                                            operationValue |-> o[2],
                                            outcome |-> end.outcome,
                                            value |-> end.value ] ]

\* the wrappers and the native module they call
InitWrappers ==
  /\ InitNative
  /\ run = NoWrappers

\* FileHandle and withFileHandle.
NextWrappers ==
  \/ newFileHandle
  \/ wrapperCall
  \/ wrapperClose
  \/ withFileHandle
  \/ withFileHandleSettles

SpecWrappers == InitWrappers /\ [][NextWrappers]_vars

(* ------------------------- media pickers ------------------------------ *)

PickKinds == {"image", "video", "media"}

\* what the user can select: the uris of the items, in the picker's order
PickUris == {UriA, UriSpace, UriMissing}

RECURSIVE SeqsUpTo(_, _)
SeqsUpTo(S, n) ==
  IF n = 0 THEN { << >> }
  ELSE LET shorter == SeqsUpTo(S, n - 1)
       IN  shorter \cup { Append(q, x) : q \in { r \in shorter : Len(r) = n - 1 },
                                         x \in S }

Selections == SeqsUpTo(PickUris, MaxAssets)

\* Android: the type pickMedia gives an asset, from the resolver's MIME type
ImageMimes == {"image/jpeg", "image/png"}

MediaType(uri) == IF GetType(uri) \in ImageMimes THEN "image" ELSE "video"

\* createAssetFromUri(uri, type); on iOS the dictionary built from the url
Asset(uri, type) == [ uri |-> uri, type |-> type ]

AssetType(kind, uri) == IF kind = "media" THEN MediaType(uri) ELSE kind

\* a canceled result that still says canceled = false
CanceledResultNotCanceled == PickResult(<< >>, FALSE)

\* createCanceledResult(); on iOS @{assets: @[], canceled: @YES}
CanceledResult == PickResult(<< >>, TRUE)

\* createSuccessResult(assets); on iOS @{assets: assets, canceled: @NO}
SuccessResult(assets) == PickResult(assets, FALSE)

\* the items of a selection that are at the positions in keep, in order
RECURSIVE Keep(_, _)
Keep(sel, keep) ==
  IF sel = << >> THEN << >>
  ELSE LET rest == Keep(Tail(sel), { i - 1 : i \in keep \ {1} })
       IN  IF 1 \in keep THEN << Head(sel) >> \o rest ELSE rest

\* promise.resolve(result), resolveBlock(result)
Resolve(picker, result) == [ picker EXCEPT !.pc = "resolved", !.result = result ]

\* the Intent of an activity result: null, or the selected uris (clipData,
\* or data.data)
Intents ==
  { [ present |-> FALSE, uris |-> << >> ] }
    \cup { [ present |-> TRUE, uris |-> sel ] : sel \in Selections }

\* handleImageResult / handleVideoResult / handleMediaResult
HandleResult(picker, resultCode, data) ==
  IF resultCode = "RESULT_CANCELED"
  THEN Resolve(picker, CanceledResult)
  ELSE IF resultCode = "RESULT_OK" /\ data.present
       THEN Resolve(picker,
                    SuccessResult([ i \in 1..Len(data.uris) |->
                                      Asset(data.uris[i],
                                            AssetType(picker.kind, data.uris[i])) ]))
       ELSE [ picker EXCEPT !.pc = "unsettled" ]

\* picker:didFinishPicking: results are the selected items, loaded the
\* positions of those whose url was loaded and added before the group's
\* notification ran
DidFinishPicking(picker, results, loaded) ==
  IF Len(results) = 0
  THEN Resolve(picker, CanceledResult)
  ELSE LET urls == Keep(results, loaded)
       IN  Resolve(picker,
                   SuccessResult([ i \in 1..Len(urls) |->
                                     Asset(urls[i], AssetType(picker.kind, urls[i])) ]))

\* pickImage / pickVideo / pickMedia: the promise is kept and the picker
\* presented; Android rejects when there is no activity or the start throws
PickCall(kind, activity) ==
  IF platform = "android" /\ activity # "present"
  THEN [ NoPicker EXCEPT !.pc = "rejected", !.kind = kind,
                         !.error = IF activity = "null" THEN "NO_ACTIVITY"
                                                        ELSE "PICKER_ERROR" ]
  ELSE [ NoPicker EXCEPT !.pc = "presented", !.kind = kind ]

\* the JavaScript layer after the call of a picker
PickStart(kind, activity, viaProcess) ==
  [ run EXCEPT !.picker = PickCall(kind, activity),
               !.pick.pc = "await",
               !.process.pc = IF viaProcess THEN "await" ELSE "none" ]

\* pick...WithHandles(options) up to its await
pickWithHandles ==
  /\ run.picker.pc = "none" /\ run.pick.pc = "none" /\ run.process.pc = "none"
  /\ \E kind \in PickKinds, activity \in {"present", "null", "throws"} :
       run' = PickStart(kind, activity, FALSE)
  /\ UNCHANGED nativeVars

\* processPickedMedia(pickerFunction, processor) up to its await, with a
\* pick...WithHandles as the pickerFunction
processPickedMedia ==
  /\ run.picker.pc = "none" /\ run.pick.pc = "none" /\ run.process.pc = "none"
  /\ \E kind \in PickKinds, activity \in {"present", "null", "throws"} :
       run' = PickStart(kind, activity, TRUE)
  /\ UNCHANGED nativeVars

\* a second pick of the same kind while the first is pending, made by
\* another caller: pickImageResolve = promise / self.resolveBlock = resolve
\* replaces the promise of the first pick, which is the one followed here
pickAgain ==
  /\ run.picker.pc = "presented"
  /\ ~run.picker.overwritten
  /\ run' = [ run EXCEPT !.picker.overwritten = TRUE ]
  /\ UNCHANGED nativeVars

\* what the platform delivers when the user dismisses the picker, and when
\* the user selects items: the result codes of Android, the results of iOS
ResultCodes(response) ==
  IF response = "dismiss" THEN {"RESULT_CANCELED"}
  ELSE {"RESULT_OK", "RESULT_FIRST_USER"}

Results(response) ==
  IF response = "dismiss" THEN { << >> } ELSE Selections \ { << >> }

\* the user answers the picker: onActivityResult on Android,
\* picker:didFinishPicking: on iOS
pickerFinishes ==
  /\ run.picker.pc = "presented"
  /\ \E response \in {"dismiss", "select"} :
       \/ /\ platform = "android"
          /\ \E resultCode \in ResultCodes(response), data \in Intents :
               run' = [ run EXCEPT !.picker =
                          [ HandleResult(@, resultCode, data)
                              EXCEPT !.response = response ] ]
       \/ /\ platform = "ios"
          /\ \E results \in Results(response) :
               \E loaded \in SUBSET (1..Len(results)) :
                 run' = [ run EXCEPT !.picker =
                            [ DidFinishPicking(@, results, loaded)
                                EXCEPT !.response = response ] ]
  /\ UNCHANGED nativeVars

\* a map that opens the assets from the last one
NextAssetFromEnd(assets, mapped) == Len(assets) - Len(mapped)

\* result.assets.map(asset => new FileHandle(asset.uri)): the asset the next
\* handle is opened from
NextAsset(assets, mapped) == Len(mapped) + 1

\* pick...WithHandles after its await
pickResumes ==
  /\ run.pick.pc = "await"
  /\ run.picker.pc \in {"resolved", "rejected"}
  /\ ~run.picker.overwritten
  /\ run' = [ run EXCEPT !.pick =
                IF run.picker.pc = "rejected"
                THEN [ @ EXCEPT !.pc = "rejected", !.error = run.picker.error ]
                ELSE IF run.picker.result.canceled
                THEN [ @ EXCEPT !.pc = "resolved", !.canceled = TRUE ]
                ELSE [ @ EXCEPT !.pc = IF run.picker.result.assets = << >>
                                       THEN "resolved" ELSE "mapping",
                                !.assets = run.picker.result.assets ] ]
  /\ UNCHANGED nativeVars

\* one call of the map's callback: new FileHandle(asset.uri); a throw of
\* open rejects pick...WithHandles
mapAsset ==
  /\ run.pick.pc = "mapping"
  /\ LET i == NextAsset(run.pick.assets, run.pick.handles)
         w == Len(run.wrappers) + 1
     IN  /\ OpenCall(run.pick.assets[i].uri)
         /\ run' = IF last'.outcome = "ok"
                   THEN [ run EXCEPT
                            !.wrappers = Append(@, Wrapper(last'.value.handle)),
                            !.js = JsCall("new", w, "ok", TRUE),
                            !.pick.handles = Append(@, w),
                            !.pick.from = Append(@, opened'[last'.value.handle].uri),
                            !.pick.pc = IF Len(run.pick.handles) + 1 = Len(run.pick.assets)
                                        THEN "resolved" ELSE "mapping" ]
                   ELSE [ run EXCEPT
                            !.js = JsCall("new", 0, last'.outcome, TRUE),
                            !.pick.pc = "rejected",
                            !.pick.error = last'.outcome ]

\* processPickedMedia after its await: null when canceled, else the call of
\* processor(assets, handles)
processResumes ==
  /\ run.process.pc = "await"
  /\ run.pick.pc \in {"resolved", "rejected"}
  /\ run' = [ run EXCEPT !.process =
                IF run.pick.pc = "rejected"
                THEN [ @ EXCEPT !.pc = "settled", !.outcome = "rejected",
                                !.value = run.pick.error ]
                ELSE IF run.pick.canceled
                THEN [ @ EXCEPT !.pc = "settled", !.outcome = "resolved",
                                !.value = JsNull ]
                ELSE [ @ EXCEPT !.pc = "processor",
                                !.processorCalls = @ + 1 ] ]
  /\ UNCHANGED nativeVars

\* what the processors call on a handle besides close(), and what they
\* settle with
ProcessorOps == {"stat"}

ProcessorOutcomes == { << "resolved", "V" >>, << "rejected", "E1" >> }

\* the processor uses and closes the handles it was given
processorCalls ==
  /\ run.process.pc = "processor"
  /\ \E k \in 1..Len(run.pick.handles) :
       \/ \E op \in ProcessorOps : WrapperCall(run.pick.handles[k], op)
       \/ WrapperClose(run.pick.handles[k])

\* processPickedMedia settled after its finally block
ProcessSettled(process) ==
  [ process EXCEPT !.pc = "settled", !.outcome = process.processor,
                   !.value = process.processorValue ]

\* the promise of the processor settles; finally { handles.forEach(...) }
processorSettles ==
  /\ run.process.pc = "processor"
  /\ \E o \in ProcessorOutcomes :
       LET p == [ run.process EXCEPT !.processor = o[1],
                                     !.processorValue = o[2], !.i = 1 ]
       IN  run' = [ run EXCEPT !.process =
                      IF run.pick.handles = << >>
                      THEN ProcessSettled(p)
                      ELSE [ p EXCEPT !.pc = "cleanup" ] ]
  /\ UNCHANGED nativeVars

\* handles.forEach(handle => handle.close()): a close that throws ends the
\* forEach and rejects processPickedMedia
ForEachClose(process, n, closeOutcome) ==
  IF closeOutcome # "ok"
  THEN [ process EXCEPT !.pc = "settled", !.outcome = "rejected",
                        !.value = closeOutcome ]
  ELSE IF process.i = n
  THEN ProcessSettled(process)
  ELSE [ process EXCEPT !.i = @ + 1 ]

\* one call of the forEach callback
cleanup ==
  /\ run.process.pc = "cleanup"
  /\ LET w == run.pick.handles[run.process.i]
     IN  /\ CloseNative(w)
         /\ run' = [ AfterClose(run, w, ~run.wrappers[w].closed, WrapperCloseOutcome(w))
                       EXCEPT !.process = ForEachClose(@, Len(run.pick.handles),
                                                       WrapperCloseOutcome(w)) ]

\* The pickers, pick...WithHandles and processPickedMedia.
NextPickers ==
  \/ pickWithHandles
  \/ processPickedMedia
  \/ pickAgain
  \/ pickerFinishes
  \/ pickResumes
  \/ mapAsset
  \/ processResumes
  \/ processorCalls
  \/ processorSettles
  \/ cleanup

\* the picked files do not change; the one at PathA holds four bytes
InitPickers ==
  /\ InitWrappers
  /\ fs[PathA] = Prefix(PatternP, 4)

SpecPickers == InitPickers /\ [][NextPickers]_vars

(* ------------------------- metadata lookups at open ------------------- *)

\* no open was called: the uri of the last open, what its two lookups and
\* channel.size() ended with, and whether the call left a descriptor open
\* that no record owns
NoLookup ==
  [ kind |-> "lookup", uri |-> << >>, mimeFailed |-> FALSE, name |-> "none",
    size |-> "ok", descriptorOpen |-> FALSE ]

\* ContentResolver.getType answers null when the lookup of the type fails
FailedType == NULL

\* what the query of the display name ends with for a uri: its answer, or
\* an exception of the provider
NameLookups(s) == { DisplayNameQuery(s), Throws }

\* channel.size() gives the size or throws an IOException
SizeQueries == { "ok", Throws }

\* an open that closes the descriptor when a later step of it throws
DescriptorLeftOpenGuarded(s, nameQ, sizeQ) == FALSE

\* BigMediaLoaderModule.open has no try/finally: the descriptor that
\* openFileDescriptor returned stays open when channel.size() throws
DescriptorLeftOpen(s, nameQ, sizeQ) ==
  /\ nameQ # Throws
  /\ fs[UrlPath(UriParse(s))] # NoFile
  /\ sizeQ = Throws

\* open(s) with every outcome of the two lookups and of channel.size(); iOS
\* makes no lookup that can fail and reads the size with error:nil
openLookup ==
  /\ Len(issued) < MaxOpens
  /\ \E s \in Uris :
       \/ /\ platform = "android"
          /\ \E mimeFailed \in BOOLEAN, nameQ \in NameLookups(s),
                sizeQ \in SizeQueries :
               /\ IF sizeQ = Throws
                  THEN FailOpen(s)
                  ELSE AndroidOpen(s, IF mimeFailed THEN FailedType
                                      ELSE GetType(s), nameQ)
               /\ run' = [ kind |-> "lookup", uri |-> s,
                           mimeFailed |-> mimeFailed, name |-> nameQ,
                           size |-> sizeQ,
                           descriptorOpen |->
                             DescriptorLeftOpen(s, nameQ, sizeQ) ]
       \/ /\ platform = "ios"
          /\ \E encodes \in BOOLEAN : IosOpen(s, encodes)
          /\ run' = [ kind |-> "lookup", uri |-> s, mimeFailed |-> FALSE,
                      name |-> "found", size |-> "ok",
                      descriptorOpen |-> FALSE ]
  /\ UNCHANGED << platform, fs, closeCalls >>

InitLookup ==
  /\ InitNative
  /\ run = NoLookup

\* open with its lookups, stat and close.
NextLookup ==
  \/ openLookup
  \/ stat
  \/ close

SpecLookup == InitLookup /\ [][NextLookup]_vars

(* ------------------------- concurrent callers ------------------------- *)

\* two callers of the module on two threads; neither module takes a lock
Threads == {1, 2}

\* the <<offset, length>> arguments of the concurrent reads
ThreadReadArgs == { << 0, 2 >>, << 2, 2 >> }

\* a caller between calls: the call it is in, its arguments, the local id
\* of an open, what the call returned, and the calls it has made
IdleThread ==
  [ op |-> "none", pc |-> "idle", handle |-> 0, offset |-> 0, length |-> 0,
    id |-> 0, uri |-> << >>, outcome |-> "none", value |-> NoValue,
    calls |-> 0 ]

NoThreads == [ kind |-> "threads", th |-> [ t \in Threads |-> IdleThread ] ]

\* the caller may begin a call
MayCall(t) ==
  /\ run.th[t].pc \in {"idle", "done"}
  /\ run.th[t].calls < MaxThreadCalls

\* a seek and a read under a lock of the handle: the read starts where the
\* call's own seek put it
ReadPositionLocked(pos, off) == off

\* the position the read of a call starts from: where the channel is when
\* the read runs
ReadPosition(pos, off) == pos

\* readBase64 up to h.channel.position(off) / [h.fh seekToFileOffset:off],
\* on a handle that no caller is closing
readSeek ==
  \E t \in Threads, h \in DOMAIN handles, a \in ThreadReadArgs :
    /\ MayCall(t)
    /\ \A u \in Threads : ~(run.th[u].op = "close" /\ run.th[u].pc # "done"
                                /\ run.th[u].handle = h)
    /\ handles' = [ handles EXCEPT ![h].channel.pos = Position(@, a[1]) ]
    /\ run' = [ run EXCEPT !.th[t] =
                  [ IdleThread EXCEPT !.op = "readBase64", !.pc = "seeked",
                                      !.handle = h, !.offset = a[1],
                                      !.length = a[2],
                                      !.calls = run.th[t].calls + 1 ] ]
    /\ UNCHANGED << platform, nextId, fs, ghost, last >>

\* what readBase64 returns when its read starts at pos
ReadFrom(rec, pos, off, length) ==
  LET content == fs[rec.channel.path]
      read == ChannelRead(content, pos, CoerceAtMost(length))
      d == ReadDataOfLength(content, pos, length)
  IN  IF platform = "android"
      THEN IF read <= 0
           THEN ReadValue(off, 0, TRUE, << >>)
           ELSE ReadValue(off, read, EofFlag(off, read, rec.size),
                          BytesAt(content, pos, read))
      ELSE ReadValue(off, Len(d), EofFlag(off, Len(d), rec.size), d)

\* readBase64 from h.channel.read(buf) / [h.fh readDataOfLength:len] on
readRead ==
  \E t \in Threads :
    /\ run.th[t].pc = "seeked"
    /\ LET th == run.th[t]
           rec == handles[th.handle]
           pos == ReadPosition(rec.channel.pos, th.offset)
           value == ReadFrom(rec, pos, th.offset, th.length)
       IN  /\ handles' = [ handles EXCEPT ![th.handle].channel.pos =
                             pos + value.bytesRead ]
           /\ last' = Call("readBase64", th.handle, th.offset, th.length,
                           TRUE, "ok", value)
           /\ run' = [ run EXCEPT !.th[t].pc = "done",
                                  !.th[t].outcome = "ok",
                                  !.th[t].value = value ]
    /\ UNCHANGED << platform, nextId, fs, ghost >>

\* the record open builds for uri s
NewHandle(id, s) ==
  IF platform = "android"
  THEN BigMediaHandle(id, UriParse(s), UrlPath(UriParse(s)),
                      Len(fs[UrlPath(UriParse(s))]), GetType(s),
                      IF DisplayNameQuery(s) = "found"
                      THEN lastPathComponent(UriParse(s)) ELSE NULL)
  ELSE BigMediaHandle(id, URLWithString(s, TRUE), UrlPath(URLWithString(s, TRUE)),
                      Len(fs[UrlPath(URLWithString(s, TRUE))]), NULL,
                      lastPathComponent(URLWithString(s, TRUE)))

\* an id allocation that is one atomic step: the id is the counter's value
\* when the call stores it
AllocatedIdAtomic(loaded, counter) == counter

\* nextId++ / _nextId++ is a load and a store: the id is the value the call
\* loaded
AllocatedId(loaded, counter) == loaded

\* open up to the load of nextId++ / _nextId++: the file is opened and the
\* counter read
openLoad ==
  \E t \in Threads :
    /\ MayCall(t)
    /\ run' = [ run EXCEPT !.th[t] =
                  [ IdleThread EXCEPT !.op = "open", !.pc = "loaded",
                                      !.uri = UriA, !.id = nextId,
                                      !.calls = run.th[t].calls + 1 ] ]
    /\ UNCHANGED nativeVars

\* the store of nextId++ / _nextId++
openStore ==
  \E t \in Threads :
    /\ run.th[t].pc = "loaded"
    /\ LET id == AllocatedId(run.th[t].id, nextId)
       IN  /\ nextId' = BumpId(id)
           /\ run' = [ run EXCEPT !.th[t].pc = "stored", !.th[t].id = id ]
    /\ UNCHANGED << platform, handles, fs, ghost, last >>

\* handles[id] = BigMediaHandle(...) / _handles[hid] = h; return id
openPut ==
  \E t \in Threads :
    /\ run.th[t].pc = "stored"
    /\ LET id == run.th[t].id
           s == run.th[t].uri
       IN  /\ handles' = Put(handles, id, NewHandle(id, s))
           /\ released' = [ r \in ResourcesOf(platform, id) |-> 0 ] @@ released
           /\ issued' = Append(issued, id)
           /\ opened' = Put(opened, id, [ uri |-> s, content |-> fs[UrlPath(s)],
                                          path |-> UrlPath(s) ])
           /\ last' = Call("open", id, 0, 0, FALSE, "ok", [ handle |-> id ])
           /\ run' = [ run EXCEPT !.th[t].pc = "done",
                                  !.th[t].outcome = "ok",
                                  !.th[t].value = [ handle |-> id ] ]
    /\ UNCHANGED << platform, nextId, fs, closeCalls >>

\* a close that releases the resources of the handle before anything else
CloseOrderReleaseFirst(plat) == "release"

\* what close does first with a handle it knows: Android removes the record
\* (handles.remove(handle)?.let { ... }), iOS closes the file
CloseOrder(plat) == IF plat = "android" THEN "remove" ELSE "release"

\* every resource of handle h released once more
ReleaseAll(rel, h) ==
  [ r \in DOMAIN rel |-> IF r[1] = h THEN rel[r] + 1 ELSE rel[r] ]

\* close up to the end of its first step, on a handle that no caller is
\* reading
closeBegin ==
  \E t \in Threads, h \in DOMAIN handles :
    /\ MayCall(t)
    /\ \A u \in Threads : ~(run.th[u].pc = "seeked" /\ run.th[u].handle = h)
    /\ IF CloseOrder(platform) = "remove"
       THEN /\ handles' = Remove(handles, h)
            /\ opened' = Remove(opened, h)
            /\ UNCHANGED released
       ELSE /\ released' = ReleaseAll(released, h)
            /\ UNCHANGED << handles, opened >>
    /\ closeCalls' = closeCalls \cup {h}
    /\ run' = [ run EXCEPT !.th[t] =
                  [ IdleThread EXCEPT !.op = "close",
                                      !.pc = CloseOrder(platform),
                                      !.handle = h,
                                      !.calls = run.th[t].calls + 1 ] ]
    /\ UNCHANGED << platform, nextId, fs, issued, last >>

\* the second step of close and its return
closeEnd ==
  \E t \in Threads :
    /\ run.th[t].pc \in {"remove", "release"}
    /\ LET h == run.th[t].handle
       IN  /\ IF run.th[t].pc = "remove"
              THEN /\ released' = ReleaseAll(released, h)
                   /\ UNCHANGED << handles, opened >>
              ELSE /\ handles' = Remove(handles, h)
                   /\ opened' = Remove(opened, h)
                   /\ UNCHANGED released
           /\ last' = Call("close", h, 0, 0, TRUE, "ok", NoValue)
    /\ run' = [ run EXCEPT !.th[t].pc = "done", !.th[t].outcome = "ok" ]
    /\ UNCHANGED << platform, nextId, fs, issued, closeCalls >>

InitThreads ==
  /\ InitNative
  /\ run = NoThreads

\* Two callers that read one handle and open files at the same time.
NextThreads ==
  \/ openFirst
  \/ readSeek
  \/ readRead
  \/ openLoad
  \/ openStore
  \/ openPut
  \/ closeBegin
  \/ closeEnd

SpecThreads == InitThreads /\ [][NextThreads]_vars

(* ------------ the item providers of an iOS pick (BigMediaLoader.mm) ------- *)

\* what an item provider conforms to, and the items the user can select:
\* each has a type, and its URL loads or fails
ItemTypes == {"image", "video"}

SelectedItems ==
  SeqsUpTo([ type : ItemTypes, error : BOOLEAN ], MaxAssets)

\* an item after dispatch_group_enter: pc is the position of the completion
\* handler of its URL load, at the count of the asset array its addObject
\* read, nested the load of the UIImage of an image item
PendingItem(item) ==
  [ type |-> item.type, error |-> item.error, pc |-> "entered", at |-> 0,
    nested |-> "none" ]

NoItems ==
  [ kind |-> "items", pc |-> "none", items |-> << >>, group |-> 0,
    assets |-> << >>, result |-> PickResult(<< >>, FALSE) ]

\* picker:didFinishPicking: with no result resolves a canceled pick, and
\* otherwise enters the group once per result and starts the URL loads
didFinishPicking ==
  /\ run.pc = "none"
  /\ \E results \in SelectedItems :
       run' = IF Len(results) = 0
              THEN [ run EXCEPT !.pc = "resolved",
                                !.result = PickResult(<< >>, TRUE) ]
              ELSE [ run EXCEPT !.pc = "loading",
                                !.items = [ i \in 1..Len(results) |->
                                            PendingItem(results[i]) ],
                                !.group = Len(results) ]
  /\ UNCHANGED nativeVars

\* the completion handler of the URL load up to the end of its branches: on
\* an error it leaves the group and returns; for an image it starts the load
\* of the UIImage, whose handler leaves the group; for any other item it
\* leaves the group; [assets addObject:asset] is still to come
urlCompletion ==
  /\ run.pc = "loading"
  /\ \E i \in DOMAIN run.items :
       /\ run.items[i].pc = "entered"
       /\ run' = IF run.items[i].error
                 THEN [ run EXCEPT !.items[i].pc = "failed",
                                   !.group = @ - 1 ]
                 ELSE IF run.items[i].type = "image"
                 THEN [ run EXCEPT !.items[i].pc = "loaded",
                                   !.items[i].nested = "pending" ]
                 ELSE [ run EXCEPT !.items[i].pc = "loaded",
                                   !.group = @ - 1 ]
  /\ UNCHANGED nativeVars

\* the completion handler of the UIImage load, on a queue of its own:
\* dispatch_group_leave
imageCompletion ==
  /\ run.pc = "loading"
  /\ \E i \in DOMAIN run.items :
       /\ run.items[i].nested = "pending"
       /\ run' = [ run EXCEPT !.items[i].nested = "done", !.group = @ - 1 ]
  /\ UNCHANGED nativeVars

\* [assets addObject:asset] on an NSMutableArray that no lock guards: the
\* handler reads the count of the array ...
addObjectCount ==
  /\ \E i \in DOMAIN run.items :
       /\ run.items[i].pc = "loaded"
       /\ run' = [ run EXCEPT !.items[i].pc = "adding",
                              !.items[i].at = Len(run.assets) + 1 ]
  /\ UNCHANGED nativeVars

\* ... and stores the asset in the slot after it, which another handler may
\* have filled since
StoreAt(assets, at, i) ==
  IF at = Len(assets) + 1 THEN Append(assets, i)
  ELSE [ assets EXCEPT ![at] = i ]

addObjectStore ==
  /\ \E i \in DOMAIN run.items :
       /\ run.items[i].pc = "adding"
       /\ run' = [ run EXCEPT
                     !.items[i].pc = "added",
                     !.assets = StoreAt(@, run.items[i].at, i) ]
  /\ UNCHANGED nativeVars

\* the block of dispatch_group_notify on the main queue, once the group is
\* empty: resolves with the assets the array holds at that moment
groupNotify ==
  /\ run.pc = "loading"
  /\ run.group = 0
  /\ run' = [ run EXCEPT !.pc = "resolved",
                         !.result = PickResult(run.assets, FALSE) ]
  /\ UNCHANGED nativeVars

InitItems ==
  /\ InitNative
  /\ platform = "ios"
  /\ fs[PathA] = Prefix(PatternP, 4)
  /\ run = NoItems

NextItems ==
  \/ didFinishPicking
  \/ urlCompletion
  \/ imageCompletion
  \/ addObjectCount
  \/ addObjectStore
  \/ groupNotify

SpecItems == InitItems /\ [][NextItems]_vars

(* ------------------------------- claims ------------------------------- *)

IssuedIds == { issued[i] : i \in 1..Len(issued) }

\* h was returned by a successful open and has not been closed since
Live(h) == h \in IssuedIds /\ h \notin closeCalls

\* the last call was op on a handle, and it returned a value
Returned(op) == last.op = op /\ last.outcome = "ok"

\* the file behind the handle of the last call, as it is now
LastFile == fs[handles[last.handle].channel.path]

\* C1: every successful open returns a positive handle greater than every
\* handle returned before it, the first one is 1, and the counter stays
\* above every handle returned, so no handle is returned again, closed or not.
C1_MonotonicHandles ==
  /\ \A i \in 1..Len(issued) : issued[i] >= 1 /\ issued[i] < nextId
  /\ Len(issued) >= 1 => issued[1] = 1
  /\ \A i, j \in 1..Len(issued) : i < j => issued[i] < issued[j]
  /\ Returned("open") => last.value.handle = issued[Len(issued)]

\* an open that succeeded after an earlier handle was closed
C1_Witness ==
  /\ Returned("open")
  /\ Len(issued) >= 2
  /\ issued[1] \in closeCalls

\* C2: stat, readBase64 and playableUri succeed exactly on the handles that
\* are open, and on any other handle they fail with InvalidHandle.
C2_InvalidHandleFails ==
  last.op \in {"stat", "readBase64", "playableUri"} =>
    /\ last.outcome = "ok" <=> Live(last.handle)
    /\ ~Live(last.handle) => last.outcome = "InvalidHandle"

\* C3: close on a handle that is not in the registry does not fail and
\* leaves the open handles, their records, the released resources and the
\* id counter as they were.
C3_CloseIdempotent ==
  [][ (last'.op = "close" /\ last'.handle \notin DOMAIN handles) =>
        /\ last'.outcome = "ok"
        /\ handles' = handles
        /\ nextId' = nextId
        /\ released' = released ]_vars

\* a second close of a handle that was closed before
C3_Witness ==
  /\ Returned("close")
  /\ ~last.known
  /\ last.handle \in closeCalls

\* C4: close returns normally whatever the release of the resource does,
\* and the handle is no longer in the registry.
C4_CloseNeverRaises ==
  last.op = "close" =>
    /\ last.outcome = "ok"
    /\ last.handle \notin DOMAIN handles

\* C5: every resource acquired by open is released at most once, and exactly
\* once when close was called on its handle; it is unreleased only when close
\* was never called on its handle.
C5_ReleasedExactlyOnce ==
  \A r \in DOMAIN released :
    /\ released[r] <= 1
    /\ r[1] \in closeCalls => released[r] = 1
    /\ released[r] = 0 => r[1] \notin closeCalls

\* C6: for every open handle stat gives the length the file had when the
\* handle was opened, and no step changes what stat gives for a handle that
\* stays open: not a read, not a call on another handle, not a change of
\* the file.
C6_StatFixed ==
  /\ [] ( /\ \A h \in DOMAIN handles :
               StatValue(handles[h]).size = Len(opened[h].content)
          /\ Returned("stat") =>
               last.value.size = Len(opened[last.handle].content) )
  /\ [][ \A h \in DOMAIN handles \cap DOMAIN handles' :
           StatValue(handles'[h]) = StatValue(handles[h]) ]_vars

\* stat on a handle that was read from and whose file has changed since open
C6_Witness ==
  /\ Returned("stat")
  /\ handles[last.handle].channel.pos > 0
  /\ Len(LastFile) # Len(opened[last.handle].content)
  /\ last.value.size = Len(opened[last.handle].content)

\* C7: playableUri returns exactly the reference string open was given, and
\* it equals the uri of stat.
C7_PlayableUriIsReference ==
  Returned("playableUri") =>
    /\ last.value.uri = opened[last.handle].uri
    /\ last.value.uri = StatValue(handles[last.handle]).uri

\* the size captured when the handle of the last call was opened
LastSize == handles[last.handle].size

\* the file of the last call is as it was when its handle was opened
LastFileUnchanged == LastFile = opened[last.handle].content

\* C8: readBase64 returns at most Cap bytes in one call, and a request for
\* more than Cap bytes on an unchanged file with at least Cap bytes after the
\* offset returns exactly Cap bytes, with eof = false when bytes remain
\* after them.
C8_ReadCapped ==
  Returned("readBase64") =>
    /\ last.value.bytesRead <= Cap
    /\ Len(Base64Decode(last.value.base64)) <= Cap
    /\ ( /\ last.length > Cap
         /\ LastFileUnchanged
         /\ LastSize - last.offset >= Cap ) =>
           /\ last.value.bytesRead = Cap
           /\ LastSize - last.offset > Cap => last.value.eof = FALSE

\* C9: on an unchanged file of size S, a read with 0 <= offset < S and
\* length >= 1 returns the requested offset, min(length, Cap, S - offset)
\* bytes, the bytes of the file at that range, and eof = (offset + bytesRead
\* >= S), whatever was read from the handle before.
C9_ReadResult ==
  ( /\ Returned("readBase64")
    /\ LastFileUnchanged
    /\ last.offset < LastSize
    /\ last.length >= 1 ) =>
      LET n == Min(last.length, Min(Cap, LastSize - last.offset))
      IN  /\ last.value.offset = last.offset
          /\ last.value.bytesRead = n
          /\ Base64Decode(last.value.base64) = BytesAt(LastFile, last.offset, n)
          /\ last.value.eof = (last.offset + n >= LastSize)

\* C10 as stated: a read at an offset at or beyond the captured size returns
\* bytesRead = 0, eof = true and an empty payload.
C10_ReadAtEndOriginal ==
  ( /\ last.op = "readBase64"
    /\ Live(last.handle)
    /\ last.offset >= LastSize ) =>
      /\ last.outcome = "ok"
      /\ last.value.bytesRead = 0
      /\ last.value.eof = TRUE
      /\ last.value.base64 = << >>

\* C10 as amended: a read at an offset at or beyond the captured size, on a
\* file that is not longer than the captured size, is not an error and
\* returns bytesRead = 0, eof = true and an empty payload.
C10_ReadAtEnd ==
  ( /\ last.op = "readBase64"
    /\ Live(last.handle)
    /\ last.offset >= LastSize
    /\ Len(LastFile) <= LastSize ) =>
      /\ last.outcome = "ok"
      /\ last.value.bytesRead = 0
      /\ last.value.eof = TRUE
      /\ last.value.base64 = << >>

\* a one-byte read at the end of a non-empty file that is as it was at open
C10_Witness ==
  /\ Returned("readBase64")
  /\ LastFileUnchanged
  /\ LastSize > 0
  /\ last.offset = LastSize
  /\ last.length = 1
  /\ last.value.bytesRead = 0

\* C11 as stated: in every result of readBase64, eof is true exactly when
\* offset + bytesRead reaches the captured size, a read of length 0 and a
\* read that yields no bytes below the captured size included.
C11_EofIffOriginal ==
  Returned("readBase64") =>
    (last.value.eof <=> last.offset + last.value.bytesRead >= LastSize)

\* C11 as amended: in every result of readBase64, eof is true whenever
\* offset + bytesRead reaches the captured size, and in a result with
\* bytesRead > 0 eof is true only then.
C11_EofIff ==
  Returned("readBase64") =>
    /\ last.offset + last.value.bytesRead >= LastSize => last.value.eof
    /\ last.value.bytesRead > 0 =>
         (last.value.eof <=> last.offset + last.value.bytesRead >= LastSize)

\* a read that ends exactly at the captured size, and returned bytes
C11_Witness ==
  /\ Returned("readBase64")
  /\ last.value.bytesRead > 0
  /\ last.offset > 0
  /\ last.offset + last.value.bytesRead = LastSize
  /\ last.value.eof

\* the run called onChunk for every read it made
ChunkPerRead ==
  /\ Len(run.chunks) = Len(run.reads)
  /\ \A i \in 1..Len(run.chunks) : run.chunks[i].offset = run.reads[i].offset

\* C12: the chunks of a run are delivered in strictly increasing, contiguous,
\* non-overlapping offset order: the first at offset 0, every later one at
\* the offset of the one before plus the bytesRead of the one before.
C12_ContiguousOffsets ==
  run.onChunk =>
    /\ ChunkPerRead
    /\ \A i \in 1..Len(run.chunks) :
         IF i = 1
         THEN run.chunks[i].offset = 0
         ELSE /\ run.chunks[i].offset =
                   run.chunks[i-1].offset + run.reads[i-1].bytesRead
              /\ run.chunks[i].offset > run.chunks[i-1].offset
              /\ run.chunks[i].offset >=
                   run.chunks[i-1].offset + Len(run.chunks[i-1].bytes)

\* the bytes of the chunks, one after the other
RECURSIVE Concat(_)
Concat(chunks) ==
  IF chunks = << >> THEN << >>
  ELSE chunks[1].bytes \o Concat(Tail(chunks))

\* the file of the run as open saw it
RunContent == opened[run.handle].content

\* C13: for a file of any size N >= 0 that no read of the run finds changed,
\* and any chunk size C >= 1, a chunk size above Cap included, the chunks
\* given to onChunk, joined in the order of delivery, are the file: N bytes,
\* the same content.
C13_RoundTrip ==
  ( /\ run.pc = "resolved"
    /\ run.onChunk
    /\ ~run.changed ) =>
      /\ Concat(run.chunks) = RunContent
      /\ Len(Concat(run.chunks)) = run.size
      /\ run.offset = run.size

\* a file longer than Cap delivered whole by a run whose chunk size is above
\* Cap, in more than one chunk
C13_Witness ==
  /\ run.pc = "resolved"
  /\ run.onChunk
  /\ ~run.changed
  /\ run.chunkSize > Cap
  /\ Len(RunContent) > Cap
  /\ Len(run.chunks) > 1
  /\ Concat(run.chunks) = RunContent

\* C14: a run handles one chunk at a time: at most one onChunk is pending,
\* the run is suspended while it is, and no readBase64 and no other onChunk
\* is issued before the pending one has settled.
C14_OneAtATime ==
  /\ [] ( /\ run.inflight <= 1
          /\ run.inflight = 1 => run.pc = "await" )
  /\ [][ ( \/ Len(run'.reads) > Len(run.reads)
           \/ Len(run'.chunks) > Len(run.chunks) ) => run.inflight = 0 ]_vars

\* the onChunk of a second chunk is pending after the first one has settled
C14_Witness ==
  /\ run.kind = "read"
  /\ run.inflight = 1
  /\ Len(run.chunks) = 2
  /\ Len(run.reads) = 2

\* C15: a run whose onChunk calls settle comes to an end, whatever the file
\* size and the chunk size, also when the file has fewer bytes than the size
\* captured at open: a read that yields no bytes is the last read of the
\* run, the run does not go round the loop after it, and a run on a size of
\* 0 reads nothing.
C15_Terminates ==
  /\ run.size = 0 => run.reads = << >>
  /\ \A i \in 1..Len(run.reads) :
       run.reads[i].bytesRead = 0 => i = Len(run.reads)
  /\ run.pc = "loop" =>
       \/ run.reads = << >>
       \/ run.reads[Len(run.reads)].bytesRead > 0

\* C16: when onChunk rejects for a chunk, the run is rejected with the error
\* onChunk rejected with, there is no onProgress for that chunk, and from
\* then on the run makes no read, calls no onChunk and no onProgress.
C16_OnChunkRejects ==
  /\ [] ( run.thrown # JsNull =>
            /\ run.pc = "rejected"
            /\ run.error = run.thrown
            /\ run.inflight = 0
            /\ Len(run.reads) = Len(run.chunks)
            /\ Len(run.progress) =
                 IF run.onProgress THEN Len(run.chunks) - 1 ELSE 0 )
  /\ [][ run.pc = "rejected" =>
           /\ run'.pc = "rejected"
           /\ run'.error = run.error
           /\ run'.reads = run.reads
           /\ run'.chunks = run.chunks
           /\ run'.progress = run.progress ]_vars

\* the onChunk of the second chunk rejected, with undefined, in a run that
\* reports progress
C16_Witness ==
  /\ run.thrown = Undefined
  /\ run.pc = "rejected"
  /\ run.onProgress
  /\ Len(run.chunks) = 2
  /\ run.offset < run.size

\* the calls of uploadFunction so far that have not succeeded
UnsuccessfulCalls == run.calls - Len(run.uploaded)

\* C17: with retryAttempts R >= 1 uploadFunction is called at least once and
\* at most R times for each chunk; the calls for a chunk stop at its first
\* success, so a chunk that first succeeds on attempt k costs exactly k
\* calls, and a success is not followed by an error or by another call for
\* the same chunk.
C17_RetryBound ==
  /\ [] ( (run.kind = "upload" /\ run.retryAttempts >= 1) =>
            /\ run.tries <= run.retryAttempts
            /\ run.chunks # << >> => run.tries >= 1
            /\ run.chunks # << >> /\ run.pc # "rejected" =>
                 run.tries = run.attempt + 1
            /\ UnsuccessfulCalls = run.failures + (IF run.calling THEN 1 ELSE 0)
            /\ Len(run.uploaded) <= Len(run.chunks) )
  /\ [][ (run.kind = "upload" /\ run.retryAttempts >= 1) =>
           /\ Len(run'.uploaded) > Len(run.uploaded) =>
                /\ run'.calls = run.calls
                /\ run'.tries = run.tries
                /\ run'.failures = run.failures
                /\ run'.pc \in {"loop", "resolved"}
                /\ run'.error = JsNull
           /\ run'.calls > run.calls =>
                /\ run'.calls = run.calls + 1
                /\ \/ Len(run'.chunks) > Len(run.chunks) /\ run'.tries = 1
                   \/ run'.failures > run.failures /\ run'.tries = run.tries + 1 ]_vars

\* a run of one chunk that resolved after the upload of the chunk failed
\* twice and succeeded on the third and last attempt allowed
C17_Witness ==
  /\ run.kind = "upload"
  /\ run.pc = "resolved"
  /\ run.retryAttempts = DefaultRetryAttempts
  /\ Len(run.chunks) = 1
  /\ run.uploaded = << 0 >>
  /\ run.tries = DefaultRetryAttempts
  /\ run.calls = DefaultRetryAttempts
  /\ run.failures = 2

\* the upload of a chunk was given up: every attempt allowed has failed
UploadGivenUp ==
  /\ run.kind = "upload"
  /\ run.retryAttempts >= 1
  /\ run.pc = "rejected"
  /\ run.chunks # << >>

\* what is the same in C18 as stated and as amended: the chunk was tried
\* retryAttempts times, no chunk after it was read or uploaded, and the
\* uploads before it stand
GivenUpStops ==
  /\ [] ( UploadGivenUp =>
            /\ run.tries = run.retryAttempts
            /\ run.calls = run.failures + Len(run.uploaded)
            /\ Len(run.reads) = Len(run.chunks)
            /\ Len(run.uploaded) = Len(run.chunks) - 1
            /\ (run.retryAttempts = 1 /\ run.uploaded = << >>) => run.calls = 1 )
  /\ [][ UploadGivenUp =>
           /\ run'.pc = "rejected"
           /\ run'.error = run.error
           /\ run'.reads = run.reads
           /\ run'.chunks = run.chunks
           /\ run'.calls = run.calls
           /\ run'.uploaded = run.uploaded ]_vars

\* C18 as stated: when every attempt for a chunk has failed, the run is
\* rejected with what the last attempt rejected with, no chunk after it is
\* read or uploaded, and the uploads before it stand.
C18_AllAttemptsFailOriginal ==
  /\ [] ( UploadGivenUp => run.error = run.lastRejection )
  /\ GivenUpStops

\* C18 as amended: when every attempt for a chunk has failed, the run is
\* rejected with what the last attempt rejected with if that value is
\* truthy, and with Error('Upload failed after all retry attempts') if it is
\* not; no chunk after it is read or uploaded, and the uploads before it
\* stand.
C18_AllAttemptsFail ==
  /\ [] ( UploadGivenUp =>
            run.error = IF Truthy(run.lastRejection) THEN run.lastRejection
                        ELSE GenericUploadError )
  /\ GivenUpStops

\* the second chunk was given up after two attempts that failed with two
\* different errors, and the run is rejected with the second
C18_Witness ==
  /\ UploadGivenUp
  /\ run.retryAttempts = 2
  /\ Len(run.uploaded) = 1
  /\ run.failures = 2
  /\ run.lastRejection = "E2"
  /\ run.error = "E2"
  /\ run.offset < run.size

\* the offsets 0, C, 2C, ... below S
Strides(S, C) == [ i \in 1..((S + C - 1) \div C) |-> (i - 1) * C ]

C20_HashStream ==
  run.kind = "hash" =>
    /\ run.hash = Concat(run.chunks)
    /\ (run.pc = "resolved" /\ ~run.changed) =>
         /\ run.hash = RunContent
         /\ run.result = Sha256Hex(RunContent)
    /\ run.pc # "resolved" => run.result = JsNull

\* the digest of a file of 10 bytes that was hashed in three chunks
C20_Witness ==
  /\ run.kind = "hash"
  /\ run.pc = "resolved"
  /\ ~run.changed
  /\ Len(run.chunks) = 3
  /\ Len(RunContent) = 10
  /\ run.result = Sha256Hex(RunContent)

\* the header begins with the bytes of the signature
Begins(header, sig) ==
  /\ Len(header) >= Len(sig)
  /\ \A i \in 1..Len(sig) : header[i] = sig[i]

\* the hex digits of the signature occur in the hex digits of the header
HexContains(header, sig) ==
  \E i \in 1..(2 * Len(header) - 2 * Len(sig) + 1) :
    \A j \in 1..(2 * Len(sig)) : ToHex(header)[i + j - 1] = ToHex(sig)[j]

\* the signature table of C21
TableType(header) ==
  CASE Begins(header, SigJpeg) -> "image/jpeg"
    [] Begins(header, SigPng) -> "image/png"
    [] Begins(header, SigGif) -> "image/gif"
    [] Begins(header, SigRiff) /\ HexContains(header, SigAvi) -> "video/avi"
    [] Begins(header, SigMpeg) -> "video/mpeg"
    [] Begins(header, SigFtyp) -> "video/mp4"
    [] Begins(header, SigWebm) -> "video/webm"
    [] Begins(header, SigPdf) -> "application/pdf"
    [] Begins(header, SigZip) -> "application/zip"
    [] OTHER -> "application/octet-stream"

\* the file of the handle whose type was detected
DetectedFile == fs[handles[run.handle].channel.path]

C22_Mp4AtOffsetFour ==
  ( /\ run.kind = "detect"
    /\ run.pc = "returned"
    /\ run.header = Mp4TestHeader ) => run.result = "video/mp4"

\* wrapper w answered its last call with 'File handle is closed' and left
\* the native module alone
ThrewClosed(w) ==
  run.js.w = w /\ run.js.op \in WrapperOps
    => run.js.outcome = ClosedError /\ ~run.js.native

\* C23: once close() has been called on a FileHandle wrapper, every later
\* getHandle(), stat(), readChunk() and getPlayableUri() on it throws 'File
\* handle is closed' without calling the native module, and further close()
\* calls on it do not call the native close again (the native close is
\* called at most once for the wrapper).
C23_ClosedWrapper ==
  \A w \in 1..Len(run.wrappers) :
    run.wrappers[w].closeCalled
      => ThrewClosed(w) /\ run.wrappers[w].nativeCloses <= 1

\* C24: withFileHandle releases the handle on every exit path: when the
\* operation resolves it returns the operation's value, when the operation
\* throws or rejects it rejects with the same error, and in both cases the
\* native close has been called exactly once for the handle opened at entry
\* before withFileHandle settles.
C24_ScopedRelease ==
  run.scope.pc = "settled" /\ run.scope.w > 0
    => /\ run.scope.outcome = run.scope.operation
       /\ run.scope.value = run.scope.operationValue
       /\ run.wrappers[run.scope.w].nativeCloses = 1

\* the native handle of wrapper w is no longer open
HandleClosed(w) == ~Known(run.wrappers[w].handle)

\* C25: processPickedMedia returns null without invoking the processor when
\* the picker result is canceled; otherwise it invokes the processor once
\* and, whether the processor resolves or rejects, every handle returned by
\* the picker function has been closed by the time processPickedMedia
\* settles.
C25_ProcessCleansUp ==
  run.process.pc = "settled" /\ run.pick.pc = "resolved"
    => IF run.pick.canceled
       THEN /\ run.process.outcome = "resolved"
            /\ run.process.value = JsNull
            /\ run.process.processorCalls = 0
       ELSE /\ run.process.processorCalls = 1
            /\ \A k \in 1..Len(run.pick.handles) :
                 HandleClosed(run.pick.handles[k])

\* C26: pickImagesWithHandles, pickVideosWithHandles and
\* pickMediaWithHandles return, for a non-canceled selection, the picker's
\* assets unchanged together with exactly one FileHandle per asset in the
\* same order (handles[i] opened from assets[i].uri); for a canceled
\* selection they return empty assets and handles with canceled = true and
\* never call open.
C26_HandlePerAsset ==
  run.pick.pc = "resolved"
    => IF run.picker.result.canceled
       THEN /\ run.pick.assets = << >>
            /\ run.pick.handles = << >>
            /\ run.pick.canceled
            /\ last.op = "init"
       ELSE /\ run.pick.assets = run.picker.result.assets
            /\ ~run.pick.canceled
            /\ Len(run.pick.handles) = Len(run.pick.assets)
            /\ \A i \in 1..Len(run.pick.handles) :
                 run.pick.from[i] = run.pick.assets[i].uri
            /\ \A i, j \in 1..Len(run.pick.handles) :
                 i # j => run.pick.handles[i] # run.pick.handles[j]

C26_Witness ==
  /\ run.pick.pc = "resolved"
  /\ ~run.picker.result.canceled
  /\ Len(run.pick.handles) = 2
  /\ run.pick.assets[1].uri # run.pick.assets[2].uri

\* C27: when the user dismisses the native picker without selecting
\* anything, the pick promise resolves (it is not rejected) with canceled =
\* true and an empty asset list; in every resolved pick result canceled =
\* true implies that assets is empty.
C27_DismissIsCanceled ==
  /\ run.picker.response = "dismiss"
       => /\ run.picker.pc = "resolved"
          /\ run.picker.result.canceled
          /\ run.picker.result.assets = << >>
  /\ run.picker.pc = "resolved" /\ run.picker.result.canceled
       => run.picker.result.assets = << >>

C27_Witness ==
  /\ run.picker.response = "dismiss"
  /\ run.picker.pc = "resolved"
  /\ run.pick.pc = "resolved"

\* the resource of the last open exists and its size can be read
CanBeOpened ==
  /\ fs[UrlPath(UriParse(run.uri))] # NoFile
  /\ run.size # Throws

\* C28: a failure of the metadata lookup (MIME type or display name) during
\* open is never surfaced: whenever the resource itself can be opened, open
\* succeeds and returns a handle whose stat reports null for the field that
\* could not be looked up.
C28_LookupFailureSwallowed ==
  /\ last.op = "open"
  /\ run.mimeFailed \/ run.name = Throws
  /\ CanBeOpened
  => /\ last.outcome = "ok"
     /\ run.mimeFailed => StatValue(handles[last.handle]).mime = NULL
     /\ run.name = Throws => StatValue(handles[last.handle]).name = NULL

\* both callers have returned from a call of op
BothReturned(op) ==
  \A t \in Threads : run.th[t].op = op /\ run.th[t].pc = "done"

\* what a readBase64(h, off, length) that runs alone returns
ReadAlone(h, off, length) == ReadFrom(handles[h], off, off, length)

\* C29: when two readBase64 calls run concurrently on the same handle, the
\* seek and the read of one call are never interleaved with the seek or
\* read of the other: each call returns the bytes at its own requested
\* offset, as if the two calls had run one after the other.
C29_ReadsSerialized ==
  BothReturned("readBase64") =>
    \A t \in Threads :
      run.th[t].value =
        ReadAlone(run.th[t].handle, run.th[t].offset, run.th[t].length)

\* C30: when two open calls run concurrently, the id counter is updated
\* atomically: they return two different handles and both records are
\* present in the registry afterwards.
C30_OpensAllocateDistinctIds ==
  BothReturned("open") =>
    /\ run.th[1].value.handle # run.th[2].value.handle
    /\ \A t \in Threads : Known(run.th[t].value.handle)

\* C31 as stated: close on a handle id that is not in the registry fails
\* with InvalidHandle.
C31_CloseInvalidHandleOriginal ==
  last.op = "close" /\ ~last.known => last.outcome = "InvalidHandle"

\* C31 as amended: close on a never-opened or already-closed handle id does
\* not fail with InvalidHandle, it returns normally; InvalidHandle is
\* reported only by stat, readBase64 and playableUri.
C31_CloseUnknownReturns ==
  /\ last.op = "close" /\ ~last.known => last.outcome = "ok"
  /\ last.outcome = "InvalidHandle"
       => last.op \in {"stat", "readBase64", "playableUri"}

\* a close of an id that open never returned
C31_Witness ==
  /\ last.op = "close"
  /\ ~last.known
  /\ last.handle > Len(issued)
  /\ last.outcome = "ok"

\* C32: close on an open handle releases the underlying OS resource before
\* it removes the handle's record from the registry: in no reachable state
\* is the record of an issued handle gone while one of its resources has
\* not been released.
C32_ReleaseBeforeRemove ==
  \A r \in DOMAIN released :
    r[1] \notin DOMAIN handles => released[r] >= 1

\* C33: a failed open leaves the registry as it was: no record is added, no
\* id is consumed, and no OS resource acquired during the failed call stays
\* open.
C33_FailedOpenLeavesNothing ==
  [][ last'.op = "open" /\ last'.outcome # "ok" =>
        /\ handles' = handles
        /\ nextId' = nextId
        /\ ~run'.descriptorOpen ]_vars

\* C34: if pickImagesWithHandles, pickVideosWithHandles or
\* pickMediaWithHandles rejects because open throws for the k-th selected
\* asset, none of the k-1 handles opened earlier in that same call remains
\* open.
C34_RejectedPickLeaksNothing ==
  run.pick.pc = "rejected" /\ run.picker.pc = "resolved"
    => \A k \in 1..Len(run.pick.handles) : HandleClosed(run.pick.handles[k])

\* the promise of the pick that is followed has been settled
PickSettled ==
  /\ run.picker.pc \in {"resolved", "rejected"}
  /\ ~run.picker.overwritten

\* C35: every pickImage, pickVideo or pickMedia promise is settled after the
\* user responds, also when a second pick of the same kind was started while
\* the first was pending, and on Android for every activity result
\* delivered for the request.
C35_PickSettles ==
  run.picker.response # "none" => PickSettled

\* the items of the pick whose URL loaded without error
LoadedItems == { i \in DOMAIN run.items : ~run.items[i].error }

\* C36: on iOS, for every interleaving of the completion handlers of the
\* item providers, the asset list of a non-canceled pick holds exactly one
\* entry for each selected item whose URL loaded without error.
C36_OneAssetPerLoadedItem ==
  run.pc = "resolved" /\ ~run.result.canceled =>
    \A i \in LoadedItems :
      Cardinality({ k \in DOMAIN run.result.assets :
                      run.result.assets[k] = i }) = 1

\* C37: every chunk that readFileInChunks passes to onChunk (and so to
\* uploadFunction and to the digest of calculateFileHash) is non-empty: a
\* read with bytesRead = 0 is never delivered.
C37_NoEmptyChunk ==
  \A k \in DOMAIN run.chunks : Len(run.chunks[k].bytes) > 0

\* the reads of the run whose onChunk has completed
ReadsDone ==
  IF run.pc = "await" \/ (run.pc = "rejected" /\ run.reads # << >>
                          /\ Len(run.progress) < Len(run.reads))
  THEN Len(run.reads) - 1 ELSE Len(run.reads)

\* C38: during a readFileInChunks run onProgress is invoked once per read,
\* after the onChunk of that chunk completed, with (offset + bytesRead,
\* size): the first argument is strictly increasing, never exceeds the
\* second, and equals size on the last call of a run that completes over an
\* unchanged file.
C38_ProgressCalls ==
  run.kind = "read" /\ run.onProgress =>
    /\ Len(run.progress) = ReadsDone
    /\ \A k \in DOMAIN run.progress :
         /\ run.progress[k] = << run.reads[k].offset + run.reads[k].bytesRead,
                                 run.size >>
         /\ k > 1 => run.progress[k - 1][1] < run.progress[k][1]
         /\ run.progress[k][1] <= run.progress[k][2]
    /\ run.pc = "resolved" /\ ~run.changed /\ run.fileChanges = 0
         /\ run.progress # << >> =>
         run.progress[Len(run.progress)][1] = run.size

\* the chunks for which uploadFunction succeeded: the first ones delivered
AcceptedChunks == 1..Len(run.uploaded)

\* byte b of the file was in a chunk that uploadFunction accepted
Accepted(b) ==
  \E j \in AcceptedChunks :
    /\ j <= Len(run.chunks)
    /\ run.chunks[j].offset <= b
    /\ b < run.chunks[j].offset + Len(run.chunks[j].bytes)

\* C39: in uploadFileInChunks, onProgress(p, size) is invoked only after
\* uploadFunction succeeded for the chunk ending at p: all bytes in [0, p)
\* have been accepted by uploadFunction, and no onProgress is invoked for a
\* chunk whose attempts all failed.
C39_ProgressAfterUpload ==
  run.kind = "upload" =>
    /\ Len(run.progress) <= Len(run.uploaded)
    /\ \A k \in DOMAIN run.progress :
         /\ run.chunks[k].offset = run.uploaded[k]
         /\ run.chunks[k].offset + Len(run.chunks[k].bytes)
              = run.progress[k][1]
         /\ \A b \in 0..(run.progress[k][1] - 1) : Accepted(b)

\* an upload that reported progress twice although an attempt had failed
C39_Witness ==
  /\ run.kind = "upload"
  /\ Len(run.progress) >= 2
  /\ run.failures > 0
  /\ run.pc = "resolved"

\* the run is an upload that was given no attempt
NoAttempts == run.kind = "upload" /\ run.retryAttempts <= 0

\* C40: uploadFileInChunks with retryAttempts <= 0 on a non-empty file never
\* invokes uploadFunction and rejects on the first chunk with the generic
\* error 'Upload failed after all retry attempts'; on an empty file it
\* resolves without invoking uploadFunction, whatever retryAttempts is.
C40_NoAttemptsRejects ==
  /\ NoAttempts =>
       /\ run.calls = 0
       /\ run.uploaded = << >>
       /\ run.size > 0 =>
            /\ run.pc \in {"loop", "rejected"}
            /\ run.pc = "rejected" =>
                 /\ run.error = GenericUploadError
                 /\ Len(run.chunks) = 1
                 /\ run.chunks[1].offset = 0
  /\ ( /\ run.kind = "upload"
       /\ last.op = "stat"
       /\ last.outcome = "ok"
       /\ last.value.size = 0 ) =>
       /\ run.pc = "resolved"
       /\ run.calls = 0
       /\ run.reads = << >>

\* an upload with no attempt was rejected on the first chunk of a file that
\* has bytes
C40_Witness ==
  /\ NoAttempts
  /\ run.size > 0
  /\ run.pc = "rejected"
  /\ run.error = GenericUploadError
  /\ Len(run.chunks) = 1
  /\ Len(run.chunks[1].bytes) > 0

====
